---- MODULE Spec2Model ----
(***************************************************************************)
(* rifi-js: one client instance (constructor in index.ts), the operations  *)
(* it exposes, the network probe that gates them, and the read/transaction *)
(* dispatcher (eth.read / eth.trx) whose invocations are logged in `calls`. *)
(*                                                                         *)
(* JavaScript runs one task at a time: the code between two awaits is one  *)
(* atomic step.  An action is therefore one such segment of an operation:  *)
(* it starts when the awaited promise settles and ends at the next await   *)
(* (issuing the next dispatcher call) or at the operation's return/throw.  *)
(***************************************************************************)
EXTENDS Integers, Sequences, FiniteSets, TLC

\* ---------------------------------------------------------------- bounds
MaxTasks == 2
UINT_BITS == 22

\* absent number (null / undefined amount, unset override)
NONE == -1

\* a value that is no number, string or BigNumber
NaV == -2

\* ------------------------------------------------- constants.ts (tables)
\* The all-ones word: 0xff..ff of rToken.ts:368 and vault.ts:14, at the
\* model's word width.
MAX_UINT == 2^UINT_BITS - 1

rBNB == "rBNB"

underlyings == {"BNB", "USDC", "ASTR"}

rTokens == {"rBNB", "rUSDC", "rASTR"}

opfAssets == {"BNB", "USDC"}

\* decimals[symbol]; the absent entry is undefined (NONE)
decimals(sym) ==
  CASE sym = "BNB" -> 3
    [] sym = "USDC" -> 2
    [] sym = "ASTR" -> 3
    [] sym = "rASTR" -> 1
    [] sym = "rBNB" -> 1
    [] sym = "rUSDC" -> 1
    [] OTHER -> NONE

\* address[network][name]; "" is the undefined entry
address(net, name) ==
  IF /\ net \in {"bsc_mainnet", "shibuya"}
     /\ name \in {"rBNB", "rUSDC", "rASTR", "USDC", "Maximillion", "PriceFeed",
                 "UsdcVault", "Cointroller"}
  THEN name ELSE ""

\* vaultInfo[network][vault].depositToken
depositToken(net, vault) == IF vault = "UsdcVault" THEN "USDC" ELSE ""

\* ------------------------------------------------------------ input sets
User == "0xUser"
Undefined == "undefined"
Null == "null"

ChainIds == {56, 81}
Operations == {"supply", "redeem", "borrow", "repayBorrow", "tokenRead",
               "getPrice", "deposit", "withdraw", "getUnderlyingPrice",
               "claimRifi", "getRewardBalances", "enterMarkets",
               "depositEnabled", "enableDeposit"}
StaticOperations == {"getRifiBalance", "getRifiAccrued"}
\* direct use of the dispatcher: Rifi.eth.read, Rifi.eth.trx
DispatcherOperations == {"read", "trx"}
\* what the ABI and method given to the dispatcher resolve to
AbiInputs == {"function", "malformed", "noSuchMethod"}
AssetInputs == {"BNB", "USDC", "UUUU", "null"}
SymbolInputs == {"USDC", "rUSDC", "BNB", "rASTR", "UUUU", "rUUUU", "", "null"}
AmountInputs == {1, 2, NONE}
WithdrawInputs == {0, 2, NONE, NaV}
BorrowerInputs == {"null", "0xBorrower", "0xbad"}
AddressInputs == {"0xBorrower", "0xbad", "1"}
VaultInputs == {"UsdcVault", "NoVault"}
FuncInputs == {"totalSupply", "transfer"}
\* the `markets` argument of enterMarkets: absent, an array, a string (held
\* as its one item) or null
MarketInputs ==
  {[items |-> <<>>, kind |-> "undefined"], [items |-> <<>>, kind |-> "array"],
   [items |-> <<"USDC">>, kind |-> "array"], [items |-> <<"USDC">>, kind |-> "string"],
   [items |-> <<"rBNB", "UUUU">>, kind |-> "array"], [items |-> <<>>, kind |-> "null"]}
AllowanceInputs == {0, 150, MAX_UINT}
PriceValues == {2, 3}
RateValues == {2, 3}

\* what the application passes: every value, or one well-formed call per
\* operation where several operations run at once
FullInputs ==
  [ops |-> Operations \cup StaticOperations \cup DispatcherOperations,
   abis |-> AbiInputs, assets |-> AssetInputs, markets |-> MarketInputs,
   symbols |-> SymbolInputs, amounts |-> AmountInputs,
   withdrawals |-> WithdrawInputs, borrowers |-> BorrowerInputs,
   addresses |-> AddressInputs, vaults |-> VaultInputs, funcs |-> FuncInputs,
   flags |-> BOOLEAN, prices |-> [underlyings -> PriceValues],
   rates |-> [rTokens -> RateValues]]

\* 'r' + asset
RName(asset) ==
  CASE asset = "BNB" -> "rBNB"
    [] asset = "USDC" -> "rUSDC"
    [] asset = "ASTR" -> "rASTR"
    [] asset = "rUSDC" -> "rrUSDC"
    [] OTHER -> "rUUUU"

\* asset[0] === 'r'
StartsWithR(asset) == asset \in {"rBNB", "rUSDC", "rASTR", "rUUUU"}

\* asset.slice(1, asset.length)
Slice1(asset) ==
  CASE asset = "rBNB" -> "BNB"
    [] asset = "rUSDC" -> "USDC"
    [] asset = "rASTR" -> "ASTR"
    [] OTHER -> "UUUU"

\* ethers.utils.isAddress / toChecksumAddress accepts
isAddress(a) == a = "0xBorrower"

\* typeof a === 'string'
isString(a) == a # "1"

\* typeof asset !== 'string' || asset.length < 1
notNonEmptyString(asset) == asset \in {"", Null, Undefined}

\* util.isNativeCoin(rTokenName, _this)
isNativeCoin(rTokenName, net) ==
  \/ rTokenName = rBNB /\ net \in {"bsc_mainnet", "bsc_testnet"}
  \/ rTokenName = "rASTR" /\ net \in {"astar_mainnet", "shibuya"}
  \/ rTokenName = "rMATIC" /\ net \in {"polygon", "mumbai"}
  \/ rTokenName = "rETH" /\ net \in {"mainnet", "goerli", "rinkeby"}

\* util.getNetNameWithChainId
getNetNameWithChainId(chainId) ==
  CASE chainId = 56 -> "bsc_mainnet"
    [] chainId = 97 -> "bsc_testnet"
    [] chainId = 1 -> "mainnet"
    [] chainId = 3 -> "ropsten"
    [] chainId = 4 -> "rinkeby"
    [] chainId = 5 -> "goerli"
    [] chainId = 42 -> "kovan"
    [] chainId = 592 -> "astar_mainnet"
    [] chainId = 81 -> "shibuya"
    [] chainId = 80001 -> "mumbai"
    [] chainId = 137 -> "polygon"
    [] OTHER -> "bsc_mainnet"

\* ----------------------------------------------------------------- state
VARIABLES
  probe,              \* eth.getProviderNetwork(provider): "pending", "resolved", "failed"
  probesStarted,      \* number of probes the instance has started
  networkPromise,     \* instance._networkPromise is present
  network,            \* instance._network
  providerWrites,     \* number of assignments to instance._provider
  providerHasAddress, \* instance._provider.address is set (a Wallet), else only getAddress()
  app,                \* the operations and argument values the application uses
  options,            \* the options object the application passes to its calls
  task,               \* the operations in flight, one record per call
  calls,              \* the dispatcher's invocations, in order
  allowance,          \* on-chain ERC-20 allowance of the user toward each spender
  mined               \* how many of the submitted calls the chain has processed

vars == <<probe, probesStarted, networkPromise, network, providerWrites,
          providerHasAddress, app, options, task, calls, allowance, mined>>

instanceVars == <<probe, probesStarted, networkPromise, network, providerWrites,
                  providerHasAddress, app>>

Tasks == DOMAIN task

NoNetwork == [id |-> NONE, name |-> "undefined"]

Spenders == {"rUSDC", "UsdcVault"}

\* a rational num / den * 10^exp
Rational(n, d, e) == [num |-> n, den |-> d, exp |-> e]

NoResult == Rational(0, 0, 0)

Idle ==
  [op |-> "none", pc |-> "idle", err |-> "none",
   asset |-> "", inAsset |-> "", amount |-> NONE, mantissa |-> FALSE,
   maxRepay |-> FALSE, noApprove |-> FALSE, borrower |-> "",
   amt |-> NONE, method |-> "", target |-> "", user |-> "",
   awaitsProbe |-> FALSE, sawNet |-> NoNetwork, readNet |-> FALSE, probes |-> 0,
   check |-> "none", reads |-> <<>>, result |-> NoResult, msg |-> <<>>,
   got |-> "none", cause |-> "none"]

\* 10 ** d
RECURSIVE Pow10(_)
Pow10(d) == IF d <= 0 THEN 1 ELSE 10 * Pow10(d - 1)

\* ethers.utils.parseUnits(amount.toString(), d) for an integer amount
parseUnits(amount, d) == amount * Pow10(d)

\* --------------------------------------------------------- the dispatcher
\* eth.read / eth.trx -> _readOrWrite: one contract invocation per call
\* a dispatcher that makes a static call whatever isWrite is
CallAlwaysStatic(t, isWrite, target, method, addrs, amount, value, abi) ==
  [t |-> t, write |-> isWrite, mode |-> "callStatic",
   target |-> target, method |-> method,
   addrs |-> addrs, amount |-> amount, value |-> value, abi |-> abi]

\* if (isWrite) contract[method].apply(null, parameters)
\* else contract.callStatic[method].apply(null, parameters)
Call(t, isWrite, target, method, addrs, amount, value, abi) ==
  [t |-> t, write |-> isWrite, mode |-> IF isWrite THEN "send" ELSE "callStatic",
   target |-> target, method |-> method,
   addrs |-> addrs, amount |-> amount, value |-> value, abi |-> abi]

read(t, target, method, addrs, amount, value, abi) ==
  Call(t, FALSE, target, method, addrs, amount, value, abi)

trx(t, target, method, addrs, amount, value, abi) ==
  Call(t, TRUE, target, method, addrs, amount, value, abi)

\* the contract call cannot be encoded with an undefined or null address argument:
\* the dispatcher's promise can only reject
Encodable(c) ==
  IF c.method = "enterMarkets" THEN TRUE
  ELSE \A i \in 1..Len(c.addrs) : c.addrs[i] \notin {Undefined, Null}

\* ------------------------------------------------------------ constructor
\* new Rifi(provider, options): one probe is started, then the instance is
\* returned; `n` calls will be made on it
Construct(n, inputs, allowances) ==
  /\ probe = "pending"
  /\ probesStarted = 1
  /\ networkPromise = TRUE
  /\ network = NoNetwork
  /\ providerWrites = 1
  /\ providerHasAddress \in BOOLEAN
  /\ app = inputs
  /\ options = [value |-> NONE, abi |-> NONE]
  /\ task = [t \in 1..n |-> Idle]
  /\ calls = <<>>
  /\ allowance \in [Spenders -> allowances]
  /\ mined = 0

Init == Construct(1, FullInputs, AllowanceInputs)

\* a completion that records the descriptor but keeps the probe handle
ProbeResolveKeepsHandle ==
  /\ probe = "pending"
  /\ \E id \in ChainIds :
       network' = [id |-> id, name |-> getNetNameWithChainId(id)]
  /\ probe' = "resolved"
  /\ networkPromise' = TRUE
  /\ UNCHANGED <<probesStarted, providerWrites, providerHasAddress, app, options, task,
                 calls, allowance, mined>>

\* .then((network) => { delete instance._networkPromise; instance._network = network; })
ProbeResolve ==
  /\ probe = "pending"
  /\ \E id \in ChainIds :
       network' = [id |-> id, name |-> getNetNameWithChainId(id)]
  /\ probe' = "resolved"
  /\ networkPromise' = FALSE
  /\ UNCHANGED <<probesStarted, providerWrites, providerHasAddress, app, options, task,
                 calls, allowance, mined>>

\* a failure handler that discards the probe handle
ProbeFailDiscardsHandle ==
  /\ probe = "pending"
  /\ probe' = "failed"
  /\ networkPromise' = FALSE
  /\ UNCHANGED <<probesStarted, network, providerWrites,
                 providerHasAddress, app, options, task, calls, allowance, mined>>

\* getProviderNetwork rejects: the .then callback does not run
ProbeFail ==
  /\ probe = "pending"
  /\ probe' = "failed"
  /\ UNCHANGED <<probesStarted, networkPromise, network, providerWrites,
                 providerHasAddress, app, options, task, calls, allowance, mined>>

\* -------------------------------------------------------------- helpers.ts
\* a gate that does not wait for the probe
netIdReturnsAtOnce(t) == task[t].pc = "gate"

\* netId: `if (_rifi._networkPromise) await _rifi._networkPromise;` returns
netIdReturns(t) == ~task[t].awaitsProbe \/ probe = "resolved"

\* netId: the awaited probe promise is rejected
netIdThrows(t) == task[t].awaitsProbe /\ probe = "failed"

AtGate(t, op) == task[t].pc = "gate" /\ task[t].op = op

At(t, op, pc) == task[t].pc = pc /\ task[t].op = op

\* the operation reads this._network after the gate
ReadNetwork(r) == [r EXCEPT !.sawNet = network, !.readNet = TRUE]

Throw(r, e) == [r EXCEPT !.pc = "rejected", !.err = e]

\* throw Error(errorPrefix + 'Argument `' + argument + '` ' + text)
ThrowArgument(r, errorPrefix, argument, text) ==
  [Throw(r, "validation") EXCEPT !.msg = <<errorPrefix, argument, text>>]

\* the task's record becomes r and the dispatcher is invoked with cs, in order
Step(t, r, cs) ==
  /\ task' = [task EXCEPT ![t] = r]
  /\ calls' = calls \o cs

\* a call of an instance operation: runs up to `await netId(this)`
Invoke(t) ==
  /\ task[t].pc = "idle"
  /\ \E op \in (app.ops \cap Operations) \ {"tokenRead"} :
       task' = [task EXCEPT ![t] = [Idle EXCEPT !.op = op, !.pc = "gate",
                                                !.awaitsProbe = networkPromise]]
  /\ UNCHANGED <<instanceVars, options, calls, allowance, mined>>

\* `await netId(this)` throws the probe's failure out of the operation
GateReject(t) ==
  /\ task[t].pc = "gate"
  /\ netIdThrows(t)
  /\ task' = [task EXCEPT ![t] = Throw(@, "probe")]
  /\ UNCHANGED <<instanceVars, options, calls, allowance, mined>>

\* the calls the dispatcher has received from task t, in order
RECURSIVE CallsOf(_, _)
CallsOf(cs, t) ==
  IF cs = <<>> THEN <<>>
  ELSE IF Head(cs).t = t THEN <<Head(cs)>> \o CallsOf(Tail(cs), t)
  ELSE CallsOf(Tail(cs), t)

LastCallOf(t) == LET cs == CallsOf(calls, t) IN cs[Len(cs)]

\* the promise task t awaits resolves (an unencodable call only rejects)
Resolves(t) == task[t].pc = "getAddress" \/ Encodable(LastCallOf(t))

Awaiting == {"getAddress", "allowance", "approve", "primary", "price1", "price2",
             "rate1", "rate2", "probe", "underlyingPrice",
             "getUnclaimedReward", "numVestingSchedules", "getVestingSchedules"}

\* the awaited promise rejects (RPC failure, revert, encoding error): the
\* operation has no try/catch around it and rejects with the same error
AwaitRejects(t) ==
  /\ task[t].pc \in Awaiting
  /\ task' = [task EXCEPT ![t] = Throw(@, "rpc")]
  /\ UNCHANGED <<instanceVars, options, calls, allowance, mined>>

\* `return eth.trx(...)` / `return eth.read(...)` resolves: so does the operation
PrimarySettles(t) ==
  /\ task[t].pc = "primary"
  /\ Resolves(t)
  /\ task' = [task EXCEPT ![t].pc = "resolved"]
  /\ UNCHANGED <<instanceVars, options, calls, allowance, mined>>

\* ------------------------------------------- direct use of the dispatcher
\* Rifi.eth.read / Rifi.eth.trx -> _readOrWrite: the promise executor runs;
\* when the ABI cannot be parsed (new ethers.Contract throws) or the method is
\* not in it (contract[method] is undefined) the executor throws and the
\* promise is rejected with that error; otherwise the contract is invoked once
InvokeDispatcher(t) ==
  /\ task[t].pc = "idle"
  /\ \E op \in app.ops \cap DispatcherOperations, abi \in app.abis :
       LET isWrite == op = "trx"
           method == IF isWrite THEN "approve" ELSE "allowance"
           r == [Idle EXCEPT !.op = op, !.method = method, !.target = "USDC"]
       IN  IF abi # "function"
           THEN Step(t, [Throw(r, abi) EXCEPT !.cause = abi], <<>>)
           ELSE Step(t, [r EXCEPT !.pc = "invoked"],
                     <<Call(t, isWrite, "USDC", method, <<"rUSDC">>,
                            IF isWrite THEN 150 ELSE NONE, NONE, abi)>>)
  /\ UNCHANGED <<instanceVars, options, allowance, mined>>

\* .then(function (result) { resolve(result); }): the transaction response of
\* a sent transaction, the decoded return value of a static call
DispatcherResolves(t) ==
  /\ task[t].pc = "invoked"
  /\ task' = [task EXCEPT ![t].pc = "resolved",
                          ![t].got = IF LastCallOf(t).mode = "send"
                                     THEN "TransactionResponse"
                                     ELSE "returnValue"]
  /\ UNCHANGED <<instanceVars, options, calls, allowance, mined>>

\* a failure handler that rejects with a new error made from the provider's
DispatcherRejectsWrapped(t) ==
  /\ task[t].pc = "invoked"
  /\ \E error \in {"rpc", "revert"} :
       task' = [task EXCEPT ![t] = [Throw(@, "Error") EXCEPT !.cause = error]]
  /\ UNCHANGED <<instanceVars, options, calls, allowance, mined>>

\* ["catch"](function (error) { reject(error); }): the provider's error (RPC
\* failure, revert) is what the promise is rejected with
DispatcherRejects(t) ==
  /\ task[t].pc = "invoked"
  /\ \E error \in {"rpc", "revert"} :
       task' = [task EXCEPT ![t] = [Throw(@, error) EXCEPT !.cause = error]]
  /\ UNCHANGED <<instanceVars, options, calls, allowance, mined>>

\* ------------------------------------------------------------- rToken.ts
\* a conversion that runs whatever the mantissa flag is
rTokenAmountAlwaysScaled(amount, mantissa, asset) ==
  parseUnits(amount, decimals(asset))

\* if (!options.mantissa) amount = parseUnits((+amount).toString(), decimals[asset]);
\* amount = BigNumber.from(amount.toString());
rTokenAmount(amount, mantissa, asset) ==
  IF ~mantissa THEN parseUnits(amount, decimals(asset)) ELSE amount

\* typeof amount is number or string, or amount is a BigNumber
isAmount(amount) == amount # NONE /\ amount # NaV

\* an approval flow that runs whatever the noApprove flag is
approvalFlowAlways(rTokenName, noApprove) == rTokenName # rBNB

\* rTokenName !== constants.rBNB && noApprove !== true
approvalFlow(rTokenName, noApprove) == rTokenName # rBNB /\ noApprove # TRUE

\* allowance.lt(amount)
\* a test that also approves when the allowance equals the amount
notEnoughOrEqual(allow, amount) == allow <= amount

\* const notEnough = allowance.lt(amount)
notEnough(allow, amount) == allow < amount

\* rTokenName === constants.rBNB ? abi.rBinance : abi.rBep20
rTokenAbi(rTokenName) == IF rTokenName = rBNB THEN "rBinance" ELSE "rBep20"

\* eth.read(underlyingAddress, 'allowance', [userAddress, rTokenAddress], options)
AllowanceRead(t, r, userAddress) ==
  read(t, address(network.name, r.asset), "allowance",
       <<userAddress, address(network.name, RName(r.asset))>>, NONE, options.value,
       "rBep20")

\* eth.trx(underlyingAddress, 'approve', [rTokenAddress, amount], options)
ApproveTrx(t, r) ==
  trx(t, address(network.name, r.asset), "approve",
      <<address(network.name, RName(r.asset))>>, r.amt, options.value, "rBep20")

\* eth.trx(rTokenAddress, 'mint', parameters, options): the amount is the
\* value override for rBNB and the only parameter otherwise
MintTrx(t, r) ==
  IF RName(r.asset) = rBNB
  THEN trx(t, r.target, "mint", <<>>, NONE, r.amt, "rBinance")
  ELSE trx(t, r.target, "mint", <<>>, r.amt, options.value, "rBep20")

\* supply, from the gate to its first await (or throw)
SupplyStart(t) ==
  /\ AtGate(t, "supply")
  /\ netIdReturns(t)
  /\ \E asset \in app.assets, amount \in app.amounts,
        noApprove \in app.flags, mantissa \in app.flags :
       LET r0 == ReadNetwork([task[t] EXCEPT !.asset = asset, !.amount = amount,
                                !.noApprove = noApprove, !.mantissa = mantissa])
           rTokenName == RName(asset)
           rTokenAddress == address(network.name, rTokenName)
           r1 == [r0 EXCEPT !.amt = rTokenAmount(amount, mantissa, asset),
                            !.target = rTokenAddress, !.method = "mint"]
       IN  IF rTokenAddress = "" \/ asset \notin underlyings
           THEN Step(t, ThrowArgument(r0, "Rifi [supply] | ", "asset",
                                      "cannot be supplied"), <<>>)
                /\ UNCHANGED options
           ELSE IF ~isAmount(amount)
           THEN Step(t, ThrowArgument(r0, "Rifi [supply] | ", "amount",
                                      "must be a string, number, or BigNumber"),
                     <<>>)
                /\ UNCHANGED options
           ELSE IF approvalFlow(rTokenName, noApprove)
           THEN /\ options' = [options EXCEPT !.abi = rTokenAbi(rTokenName)]
                /\ IF providerHasAddress
                   THEN Step(t, [r1 EXCEPT !.pc = "allowance", !.user = User],
                             <<AllowanceRead(t, r1, User)>>)
                   ELSE Step(t, [r1 EXCEPT !.pc = "getAddress"], <<>>)
           ELSE /\ options' = [options EXCEPT
                                 !.abi = rTokenAbi(rTokenName),
                                 !.value = IF rTokenName = rBNB THEN r1.amt ELSE @]
                /\ Step(t, [r1 EXCEPT !.pc = "primary"], <<MintTrx(t, r1)>>)
  /\ UNCHANGED <<instanceVars, allowance, mined>>

\* userAddress = await this._provider.getAddress(); then the allowance read
SupplyGotAddress(t) ==
  /\ At(t, "supply", "getAddress")
  /\ Step(t, [task[t] EXCEPT !.pc = "allowance", !.user = User],
          <<AllowanceRead(t, task[t], User)>>)
  /\ UNCHANGED <<instanceVars, options, allowance, mined>>

\* the allowance read resolves: approve when not enough, else mint
SupplyAllowance(t) ==
  /\ At(t, "supply", "allowance")
  /\ Resolves(t)
  /\ LET allow == allowance[RName(task[t].asset)]
         r == [task[t] EXCEPT !.reads = Append(@, allow)]
     IN  IF notEnough(allow, r.amt)
         THEN Step(t, [r EXCEPT !.pc = "approve"], <<ApproveTrx(t, r)>>)
         ELSE Step(t, [r EXCEPT !.pc = "primary"], <<MintTrx(t, r)>>)
  /\ UNCHANGED <<instanceVars, options, allowance, mined>>

\* `await eth.trx(... 'approve' ...)` resolves: then mint
SupplyApproved(t) ==
  /\ At(t, "supply", "approve")
  /\ Resolves(t)
  /\ Step(t, [task[t] EXCEPT !.pc = "primary"], <<MintTrx(t, task[t])>>)
  /\ UNCHANGED <<instanceVars, options, allowance, mined>>

\* the tables of constants.ts that are objects keyed by the network name
\* (`rTokens[this._network.name]`, `address[this._network.name]`): they have
\* no array methods, so `rTokens.includes(...)` throws a TypeError
keyedByNetwork == {"address", "rTokens"}

\* redeem: one segment from the gate to `return eth.trx(...)`
RedeemStart(t) ==
  /\ AtGate(t, "redeem")
  /\ netIdReturns(t)
  /\ \E asset \in app.symbols, amount \in app.amounts, mantissa \in app.flags :
       LET r0 == [task[t] EXCEPT !.asset = asset, !.amount = amount,
                                 !.mantissa = mantissa]
           assetIsRToken == StartsWithR(asset)
           rTokenName == IF assetIsRToken THEN asset ELSE RName(asset)
           rTokenAddress == address(network.name, rTokenName)
           underlyingName == IF assetIsRToken THEN Slice1(asset) ELSE asset
           method == IF assetIsRToken THEN "redeem" ELSE "redeemUnderlying"
           r1 == [ReadNetwork(r0) EXCEPT
                    !.amt = rTokenAmount(amount, mantissa, asset),
                    !.target = rTokenAddress, !.method = method, !.pc = "primary"]
       IN  IF notNonEmptyString(asset)
           THEN Step(t, ThrowArgument(r0, "Rifi [redeem] | ", "asset",
                                      "must be a non-empty string"), <<>>)
           ELSE IF "rTokens" \in keyedByNetwork
           THEN Step(t, Throw(ReadNetwork(r0), "TypeError"), <<>>)
           ELSE IF rTokenName \notin rTokens \/ underlyingName \notin underlyings
           THEN Step(t, ThrowArgument(ReadNetwork(r0), "Rifi [redeem] | ",
                                      "asset", "is not supported"), <<>>)
           ELSE IF ~isAmount(amount)
           THEN Step(t, ThrowArgument(ReadNetwork(r0), "Rifi [redeem] | ", "amount",
                                      "must be a string, number, or BigNumber"),
                     <<>>)
           ELSE Step(t, r1, <<trx(t, rTokenAddress, method, <<>>, r1.amt,
                                  options.value,
                                  rTokenAbi(rTokenName))>>)
  /\ UNCHANGED <<instanceVars, options, allowance, mined>>

\* borrow: one segment from the gate to `return eth.trx(...)`
BorrowStart(t) ==
  /\ AtGate(t, "borrow")
  /\ netIdReturns(t)
  /\ \E asset \in app.assets, amount \in app.amounts, mantissa \in app.flags :
       LET r0 == ReadNetwork([task[t] EXCEPT !.asset = asset, !.amount = amount,
                                !.mantissa = mantissa])
           rTokenName == RName(asset)
           rTokenAddress == address(network.name, rTokenName)
           r1 == [r0 EXCEPT !.amt = rTokenAmount(amount, mantissa, asset),
                            !.target = rTokenAddress, !.method = "borrow",
                            !.pc = "primary"]
       IN  IF rTokenAddress = "" \/ asset \notin underlyings
           THEN Step(t, Throw(r0, "validation"), <<>>)
           ELSE IF ~isAmount(amount)
           THEN Step(t, Throw(r0, "validation"), <<>>)
           ELSE Step(t, r1, <<trx(t, rTokenAddress, "borrow", <<>>, r1.amt,
                                  options.value,
                                  rTokenAbi(rTokenName))>>)
  /\ UNCHANGED <<instanceVars, options, allowance, mined>>

\* (+amount * 1.01).toString() parsed with `decimals` more fractional digits
\* is an integer number of units
OnePercentMoreParses(amount, d) == (amount * 101 * Pow10(d)) % 100 = 0

\* amount = +amount * 1.01; amount = parseUnits(amount.toString(), decimals[asset])
OnePercentMore(amount, d) == (amount * 101 * Pow10(d)) \div 100

\* a maxRepay that repays 1% more than the amount for every asset
repayAmountOnePercentMore(amount, mantissa, maxRepay, asset) ==
  LET scaled == rTokenAmount(amount, mantissa, asset)
  IN  IF maxRepay THEN OnePercentMore(scaled, decimals(asset)) ELSE scaled

\* if (options.maxRepay === true) { rBNB: 1% more, parsed again; else 0xff..ff }
repayAmount(amount, mantissa, maxRepay, asset) ==
  LET scaled == rTokenAmount(amount, mantissa, asset)
  IN  IF maxRepay
      THEN IF RName(asset) = rBNB
           THEN OnePercentMore(scaled, decimals(asset))
           ELSE MAX_UINT
      ELSE scaled

\* isAddress(borrower) ? 'repayBorrowBehalf' : 'repayBorrow', then the
\* Maximillion override
repayMethod(borrower, maxRepay, asset) ==
  IF maxRepay /\ RName(asset) = rBNB THEN "repayBehalf"
  ELSE IF isAddress(borrower) THEN "repayBorrowBehalf" ELSE "repayBorrow"

\* method.indexOf('Behalf') !== -1
IsBehalf(method) == method \in {"repayBorrowBehalf", "repayBehalf"}

\* eth.trx(contractAddress, method, parameters, trxOptions)
RepayTrx(t, r) ==
  LET parameters == IF IsBehalf(r.method) THEN <<r.borrower>> ELSE <<>>
  IN  IF RName(r.asset) = rBNB
      THEN trx(t, r.target, r.method, parameters, NONE, r.amt,
               IF r.maxRepay THEN "Maximillion" ELSE "rBinance")
      ELSE trx(t, r.target, r.method, parameters, r.amt, options.value, "rBep20")

\* repayBorrow, from the gate to its first await (or throw)
RepayStart(t) ==
  /\ AtGate(t, "repayBorrow")
  /\ netIdReturns(t)
  /\ \E asset \in app.assets, amount \in app.amounts, borrower \in app.borrowers,
        noApprove \in app.flags, mantissa \in app.flags, maxRepay \in app.flags :
       LET r0 == ReadNetwork([task[t] EXCEPT !.asset = asset, !.amount = amount,
                                !.borrower = borrower, !.noApprove = noApprove,
                                !.mantissa = mantissa, !.maxRepay = maxRepay])
           rTokenName == RName(asset)
           rTokenAddress == address(network.name, rTokenName)
           native == rTokenName = rBNB
           contractAddress == IF maxRepay /\ native
                              THEN address(network.name, "Maximillion")
                              ELSE rTokenAddress
           userAddress == IF providerHasAddress THEN User ELSE Undefined
           r1 == [r0 EXCEPT !.amt = repayAmount(amount, mantissa, maxRepay, asset),
                            !.target = contractAddress,
                            !.method = repayMethod(borrower, maxRepay, asset),
                            !.user = userAddress]
       IN  IF rTokenAddress = "" \/ asset \notin underlyings
           THEN Step(t, Throw(r0, "validation"), <<>>)
           ELSE IF ~isAmount(amount)
           THEN Step(t, Throw(r0, "validation"), <<>>)
           ELSE IF borrower # Null /\ ~isAddress(borrower)
           THEN Step(t, [Throw(r0, "validation") EXCEPT
                           !.msg = <<"Rifi [repayBorrow] | ",
                                     "Invalid", "borrower", "address">>], <<>>)
           ELSE IF /\ maxRepay /\ native
                   /\ ~OnePercentMoreParses(rTokenAmount(amount, mantissa, asset),
                                            decimals(asset))
           THEN Step(t, Throw(r0, "conversion"), <<>>)
           ELSE IF approvalFlow(rTokenName, noApprove)
           THEN Step(t, [r1 EXCEPT !.pc = "allowance"],
                     <<AllowanceRead(t, r1, userAddress)>>)
           ELSE Step(t, [r1 EXCEPT !.pc = "primary"], <<RepayTrx(t, r1)>>)
  /\ UNCHANGED <<instanceVars, options, allowance, mined>>

\* the allowance read resolves: approve when not enough, else repay
RepayAllowance(t) ==
  /\ At(t, "repayBorrow", "allowance")
  /\ Resolves(t)
  /\ LET allow == allowance[RName(task[t].asset)]
         r == [task[t] EXCEPT !.reads = Append(@, allow)]
     IN  IF notEnough(allow, r.amt)
         THEN Step(t, [r EXCEPT !.pc = "approve"], <<ApproveTrx(t, r)>>)
         ELSE Step(t, [r EXCEPT !.pc = "primary"], <<RepayTrx(t, r)>>)
  /\ UNCHANGED <<instanceVars, options, allowance, mined>>

\* `await eth.trx(... 'approve' ...)` resolves: then repay
RepayApproved(t) ==
  /\ At(t, "repayBorrow", "approve")
  /\ Resolves(t)
  /\ Step(t, [task[t] EXCEPT !.pc = "primary"], <<RepayTrx(t, task[t])>>)
  /\ UNCHANGED <<instanceVars, options, allowance, mined>>

\* tokenRead checks `func` before the gate: a bad name rejects at once
InvokeTokenRead(t) ==
  /\ task[t].pc = "idle"
  /\ "tokenRead" \in app.ops
  /\ \E func \in app.funcs :
       LET r == [Idle EXCEPT !.op = "tokenRead", !.method = func]
       IN  task' = [task EXCEPT ![t] =
                      IF func # "totalSupply" THEN Throw(r, "validation")
                      ELSE [r EXCEPT !.pc = "gate", !.awaitsProbe = networkPromise]]
  /\ UNCHANGED <<instanceVars, options, calls, allowance, mined>>

\* tokenRead after the gate: `return eth.trx(rTokenAddress, func, parameters, options)`
TokenReadStart(t) ==
  /\ AtGate(t, "tokenRead")
  /\ netIdReturns(t)
  /\ \E rTokenName \in app.symbols :
       LET r0 == ReadNetwork([task[t] EXCEPT !.asset = rTokenName])
           rTokenAddress == address(network.name, rTokenName)
       IN  IF rTokenAddress = "" \/ ~StartsWithR(rTokenName)
           THEN Step(t, Throw(r0, "validation"), <<>>) /\ UNCHANGED options
           ELSE /\ options' = [options EXCEPT !.abi = rTokenAbi(rTokenName)]
                /\ Step(t, [r0 EXCEPT !.target = rTokenAddress, !.pc = "primary"],
                        <<trx(t, rTokenAddress, r0.method, <<>>, NONE,
                              options.value, rTokenAbi(rTokenName))>>)
  /\ UNCHANGED <<instanceVars, allowance, mined>>

\* --------------------------------------------------------------- vault.ts
\* if (!options.mantissa) parseUnits(amount.toString(), decimals[tokenName])
\* else BigNumber.from(amount.toString())
vaultAmount(amount, mantissa, tokenName) ==
  IF ~mantissa THEN parseUnits(amount, decimals(tokenName)) ELSE amount

\* isApproved: eth.read(tokenAddress, "allowance", [ownerAddress, spenderAddress], trxOptions)
IsApprovedRead(t, tokenAddress, ownerAddress, spenderAddress) ==
  read(t, tokenAddress, "allowance", <<ownerAddress, spenderAddress>>, NONE,
       options.value, "Bep20")

\* approve: eth.trx(tokenAddress, "approve", [spenderAddress, amount], trxOptions)
VaultApproveTrx(t, tokenAddress, spenderAddress, amount) ==
  trx(t, tokenAddress, "approve", <<spenderAddress>>, amount, options.value, "Bep20")

\* eth.trx(vaultAddress, "deposit", [amount], trxOptions)
DepositTrx(t, r) ==
  trx(t, r.target, "deposit", <<>>, r.amt, options.value, "Vault")

\* `const approved = isApproved(...)` is not awaited: `approved` is the
\* promise object, whatever the allowance is
depositApproved(allow, amount) == TRUE

\* deposit, from the gate to its first await (or throw)
DepositStart(t) ==
  /\ AtGate(t, "deposit")
  /\ netIdReturns(t)
  /\ \E vault \in app.vaults, amount \in app.amounts,
        noApprove \in app.flags, mantissa \in app.flags :
       LET r0 == ReadNetwork([task[t] EXCEPT !.asset = vault, !.amount = amount,
                                !.noApprove = noApprove, !.mantissa = mantissa])
           vaultAddress == address(network.name, vault)
           tokenName == depositToken(network.name, vault)
           tokenAddress == address(network.name, tokenName)
           r1 == [r0 EXCEPT !.amt = vaultAmount(amount, mantissa, tokenName),
                            !.target = vaultAddress, !.method = "deposit"]
       IN  IF vaultAddress = "" \/ tokenAddress = ""
           THEN Step(t, Throw(r0, "validation"), <<>>)
           ELSE IF ~isAmount(amount)
           THEN Step(t, Throw(r0, "validation"), <<>>)
           ELSE IF noApprove # TRUE
           THEN Step(t, [r1 EXCEPT !.pc = "getAddress"], <<>>)
           ELSE Step(t, [r1 EXCEPT !.pc = "primary"], <<DepositTrx(t, r1)>>)
  /\ UNCHANGED <<instanceVars, options, allowance, mined>>

\* `await getUserAddress(...)` resolves; isApproved issues its read and
\* returns its promise; approve is called when `!approved`; then deposit
DepositGotAddress(t) ==
  /\ At(t, "deposit", "getAddress")
  /\ LET r == [task[t] EXCEPT !.user = User, !.check = "pending", !.pc = "primary"]
         tokenAddress == address(network.name, depositToken(network.name, r.asset))
         isApprovedCall == IsApprovedRead(t, tokenAddress, User, r.target)
     IN  IF ~depositApproved(allowance[r.asset], r.amt)
         THEN Step(t, r, <<isApprovedCall,
                           VaultApproveTrx(t, tokenAddress, r.target, r.amt),
                           DepositTrx(t, r)>>)
         ELSE Step(t, r, <<isApprovedCall, DepositTrx(t, r)>>)
  /\ UNCHANGED <<instanceVars, options, allowance, mined>>

\* the allowance read of isApproved settles; nothing awaits its promise
DepositCheckSettles(t) ==
  /\ task[t].op = "deposit" /\ task[t].check = "pending"
  /\ task' = [task EXCEPT ![t].check = "settled",
                          ![t].reads = Append(@, allowance[task[t].asset])]
  /\ UNCHANGED <<instanceVars, options, calls, allowance, mined>>

\* a test that takes every falsy amount for an absent one
hasAmountTruthy(amount) == amount # NONE /\ amount # 0

\* amount !== undefined && amount !== null
hasAmount(amount) == amount # NONE

\* withdraw: one segment from the gate to `return eth.trx(...)`
WithdrawStart(t) ==
  /\ AtGate(t, "withdraw")
  /\ netIdReturns(t)
  /\ \E vault \in app.vaults, amount \in app.withdrawals, mantissa \in app.flags :
       LET r0 == ReadNetwork([task[t] EXCEPT !.asset = vault, !.amount = amount,
                                !.mantissa = mantissa])
           vaultAddress == address(network.name, vault)
           tokenName == depositToken(network.name, vault)
           r1 == [r0 EXCEPT !.target = vaultAddress, !.pc = "primary"]
       IN  IF vaultAddress = ""
           THEN Step(t, Throw(r0, "validation"), <<>>)
           ELSE IF hasAmount(amount)
           THEN IF ~isAmount(amount)
                THEN Step(t, Throw(r0, "validation"), <<>>)
                ELSE LET r2 == [r1 EXCEPT !.method = "withdraw",
                                  !.amt = vaultAmount(amount, mantissa, tokenName)]
                     IN  Step(t, r2, <<trx(t, vaultAddress, "withdraw", <<>>,
                                           r2.amt, options.value, "Vault")>>)
           ELSE Step(t, [r1 EXCEPT !.method = "withdrawAll"],
                     <<trx(t, vaultAddress, "withdrawAll", <<>>, NONE,
                           options.value, "Vault")>>)
  /\ UNCHANGED <<instanceVars, options, allowance, mined>>

\* const MAX_ALLOWANCE = BigNumber.from("0xff...ff"): 2**256 - 1
MAX_ALLOWANCE == MAX_UINT

\* const SAFE_ALLOWANCE = BigNumber.from("0xffffffffffffffffffffff"): 2**88 - 1,
\* at about a third of the width of MAX_ALLOWANCE
SAFE_ALLOWANCE == 2^(UINT_BITS \div 3) - 1

\* a comparison that needs more than the amount
isApprovedAbove(allow, amount) ==
  allow > (IF amount = NONE THEN SAFE_ALLOWANCE ELSE amount)

\* isApproved: if (!amount) amount = SAFE_ALLOWANCE; return allowance.gte(amount)
isApproved(allow, amount) ==
  allow >= (IF amount = NONE THEN SAFE_ALLOWANCE ELSE amount)

\* depositEnabled, from the gate to `await getUserAddress(...)` (or throw)
DepositEnabledStart(t) ==
  /\ AtGate(t, "depositEnabled")
  /\ netIdReturns(t)
  /\ \E vault \in app.vaults :
       LET r0 == ReadNetwork([task[t] EXCEPT !.asset = vault])
           vaultAddress == address(network.name, vault)
           tokenName == depositToken(network.name, vault)
           tokenAddress == address(network.name, tokenName)
       IN  IF vaultAddress = "" \/ tokenAddress = ""
           THEN Step(t, Throw(r0, "validation"), <<>>)
           ELSE Step(t, [r0 EXCEPT !.target = vaultAddress, !.pc = "getAddress"], <<>>)
  /\ UNCHANGED <<instanceVars, options, allowance, mined>>

\* `await getUserAddress(...)` resolves; isApproved issues its read, which
\* is awaited
DepositEnabledGotAddress(t) ==
  /\ At(t, "depositEnabled", "getAddress")
  /\ LET r == [task[t] EXCEPT !.user = User, !.method = "allowance",
                              !.pc = "allowance"]
         tokenAddress == address(network.name, depositToken(network.name, r.asset))
     IN  Step(t, r, <<IsApprovedRead(t, tokenAddress, User, r.target)>>)
  /\ UNCHANGED <<instanceVars, options, allowance, mined>>

\* the allowance read resolves: return await isApproved(..., SAFE_ALLOWANCE, ...)
DepositEnabledAllowance(t) ==
  /\ At(t, "depositEnabled", "allowance")
  /\ Resolves(t)
  /\ LET allow == allowance[task[t].asset]
     IN  task' = [task EXCEPT ![t].reads = Append(@, allow),
                              ![t].pc = "resolved",
                              ![t].got = IF isApproved(allow, SAFE_ALLOWANCE)
                                         THEN "true" ELSE "false"]
  /\ UNCHANGED <<instanceVars, options, calls, allowance, mined>>

\* enableDeposit, from the gate to `await getUserAddress(...)` (or throw)
EnableDepositStart(t) ==
  /\ AtGate(t, "enableDeposit")
  /\ netIdReturns(t)
  /\ \E vault \in app.vaults :
       LET r0 == ReadNetwork([task[t] EXCEPT !.asset = vault])
           vaultAddress == address(network.name, vault)
           tokenName == depositToken(network.name, vault)
           tokenAddress == address(network.name, tokenName)
       IN  IF vaultAddress = "" \/ tokenAddress = ""
           THEN Step(t, Throw(r0, "validation"), <<>>)
           ELSE Step(t, [r0 EXCEPT !.target = vaultAddress, !.pc = "getAddress"], <<>>)
  /\ UNCHANGED <<instanceVars, options, allowance, mined>>

\* `await getUserAddress(...)` resolves; isApproved issues its read, which
\* is awaited
EnableDepositGotAddress(t) ==
  /\ At(t, "enableDeposit", "getAddress")
  /\ LET r == [task[t] EXCEPT !.user = User, !.pc = "allowance"]
         tokenAddress == address(network.name, depositToken(network.name, r.asset))
     IN  Step(t, r, <<IsApprovedRead(t, tokenAddress, User, r.target)>>)
  /\ UNCHANGED <<instanceVars, options, allowance, mined>>

\* the allowance read resolves: if (!approved) return approve(tokenAddress,
\* vaultAddress, MAX_ALLOWANCE, trxOptions); else the function returns nothing
EnableDepositAllowance(t) ==
  /\ At(t, "enableDeposit", "allowance")
  /\ Resolves(t)
  /\ LET allow == allowance[task[t].asset]
         r == [task[t] EXCEPT !.reads = Append(@, allow)]
         tokenAddress == address(network.name, depositToken(network.name, r.asset))
     IN  IF ~isApproved(allow, SAFE_ALLOWANCE)
         THEN Step(t, [r EXCEPT !.method = "approve", !.amt = MAX_ALLOWANCE,
                                !.pc = "primary"],
                   <<VaultApproveTrx(t, tokenAddress, r.target, MAX_ALLOWANCE)>>)
         ELSE Step(t, [r EXCEPT !.pc = "resolved", !.got = Undefined], <<>>)
  /\ UNCHANGED <<instanceVars, options, allowance, mined>>

\* ----------------------------------------------------------- priceFeed.ts
\* a validation that has no check of the type and length of the symbol
validateAssetErrorUnchecked(asset) ==
  LET assetIsRToken == StartsWithR(asset)
      rTokenName == IF assetIsRToken THEN asset ELSE RName(asset)
      underlyingName == IF assetIsRToken THEN Slice1(asset) ELSE asset
  IN  IF /\ (rTokenName \notin rTokens \/ underlyingName \notin underlyings)
         /\ underlyingName \notin opfAssets
      THEN "is not supported"
      ELSE ""

\* validateAsset: the error thrown, or "" when the symbol is accepted
validateAssetError(asset) ==
  LET assetIsRToken == StartsWithR(asset)
      rTokenName == IF assetIsRToken THEN asset ELSE RName(asset)
      underlyingName == IF assetIsRToken THEN Slice1(asset) ELSE asset
  IN  IF notNonEmptyString(asset) THEN "must be a non-empty string"
      ELSE IF /\ (rTokenName \notin rTokens \/ underlyingName \notin underlyings)
              /\ underlyingName \notin opfAssets
      THEN "is not supported"
      ELSE ""

\* validateAsset: [assetIsRToken, rTokenName, rTokenAddress, underlyingName, , underlyingDecimals]
validateAsset(asset) ==
  LET assetIsRToken == StartsWithR(asset)
      rTokenName == IF assetIsRToken THEN asset ELSE RName(asset)
      underlyingName == IF assetIsRToken THEN Slice1(asset) ELSE asset
  IN  [assetIsRToken |-> assetIsRToken, rTokenName |-> rTokenName,
       rTokenAddress |-> address(network.name, rTokenName),
       underlyingName |-> IF underlyingName = "WBTC" THEN "BTC" ELSE underlyingName,
       underlyingDecimals |-> decimals(underlyingName)]

\* eth.read(priceFeedAddress, 'price', [underlyingName], trxOptions)
PriceRead(t, underlyingName) ==
  read(t, address(network.name, "PriceFeed"), "price", <<underlyingName>>,
       NONE, NONE, "PriceFeed")

\* rTokenExchangeRate: eth.read(address, 'exchangeRateCurrent', [], options)
ExchangeRateRead(t, v) ==
  read(t, v.rTokenAddress, "exchangeRateCurrent", <<>>, NONE, NONE,
       IF v.rTokenName \in {"rBNB", "rASTR", "rMATIC", "rETH"}
       THEN "rBinance" ELSE "rBep20")

\* rTokenExchangeRate: mantissa = 18 + underlyingDecimals - 8
rateExponent(underlyingDecimals) == 18 + underlyingDecimals - 8

\* a combination that, for two wrappers, multiplies by the rate of asset and
\* divides by the rate of inAsset
priceResultSourceTimesTargetOver(a, b, assetPrice, inAssetPrice, assetRate, inAssetRate) ==
  LET ea == rateExponent(a.underlyingDecimals)
      eb == rateExponent(b.underlyingDecimals)
  IN  IF ~a.assetIsRToken /\ ~b.assetIsRToken
      THEN Rational(assetPrice, inAssetPrice, 0)
      ELSE IF a.assetIsRToken /\ ~b.assetIsRToken
      THEN Rational(assetPrice * assetRate, inAssetPrice, 0 - ea)
      ELSE IF ~a.assetIsRToken /\ b.assetIsRToken
      THEN Rational(assetPrice, inAssetPrice * inAssetRate, eb)
      ELSE Rational(assetPrice * assetRate, inAssetPrice * inAssetRate, eb - ea)

\* a combination that multiplies by the rate of inAsset where the code divides
priceResultTimesInAssetRate(a, b, assetPrice, inAssetPrice, assetRate, inAssetRate) ==
  LET ea == rateExponent(a.underlyingDecimals)
      eb == rateExponent(b.underlyingDecimals)
  IN  IF ~a.assetIsRToken /\ ~b.assetIsRToken
      THEN Rational(assetPrice, inAssetPrice, 0)
      ELSE IF a.assetIsRToken /\ ~b.assetIsRToken
      THEN Rational(assetPrice * assetRate, inAssetPrice, 0 - ea)
      ELSE IF ~a.assetIsRToken /\ b.assetIsRToken
      THEN Rational(assetPrice * inAssetRate, inAssetPrice, 0 - eb)
      ELSE Rational(assetPrice * inAssetRate, inAssetPrice * assetRate, ea - eb)

\* getPrice: the four cases of the result, with
\* oneRTokenInUnderlying = exchangeRateCurrent / 10^mantissa
priceResult(a, b, assetPrice, inAssetPrice, assetRate, inAssetRate) ==
  LET ea == rateExponent(a.underlyingDecimals)
      eb == rateExponent(b.underlyingDecimals)
  IN  IF ~a.assetIsRToken /\ ~b.assetIsRToken
      THEN Rational(assetPrice, inAssetPrice, 0)
      ELSE IF a.assetIsRToken /\ ~b.assetIsRToken
      THEN Rational(assetPrice * assetRate, inAssetPrice, 0 - ea)
      ELSE IF ~a.assetIsRToken /\ b.assetIsRToken
      THEN Rational(assetPrice, inAssetPrice * inAssetRate, eb)
      ELSE Rational(assetPrice * inAssetRate, inAssetPrice * assetRate, ea - eb)

\* getPrice returns: the values read, in the order read, are in r.reads
GetPriceReturn(r) ==
  LET a == validateAsset(r.asset)
      b == validateAsset(r.inAsset)
      assetRate == IF a.assetIsRToken THEN r.reads[3] ELSE NONE
      inAssetRate == IF b.assetIsRToken THEN r.reads[Len(r.reads)] ELSE NONE
  IN  [r EXCEPT !.pc = "resolved",
                !.result = priceResult(a, b, r.reads[1], r.reads[2],
                                       assetRate, inAssetRate)]

\* getPrice, from the gate to the first oracle read (or throw)
GetPriceStart(t) ==
  /\ AtGate(t, "getPrice")
  /\ netIdReturns(t)
  /\ \E asset \in app.symbols, inAsset \in app.symbols :
       LET r0 == ReadNetwork([task[t] EXCEPT !.asset = asset, !.inAsset = inAsset])
           errorPrefix == "Rifi [getPrice] | "
       IN  IF validateAssetError(asset) # ""
           THEN Step(t, ThrowArgument(
                          [task[t] EXCEPT !.asset = asset, !.inAsset = inAsset,
                             !.readNet = ~notNonEmptyString(asset),
                             !.sawNet = IF ~notNonEmptyString(asset) THEN network
                                        ELSE NoNetwork],
                          errorPrefix, "asset", validateAssetError(asset)), <<>>)
           ELSE IF validateAssetError(inAsset) # ""
           THEN Step(t, ThrowArgument(r0, errorPrefix, "inAsset",
                                      validateAssetError(inAsset)), <<>>)
           ELSE Step(t, [r0 EXCEPT !.pc = "price1"],
                     <<PriceRead(t, validateAsset(asset).underlyingName)>>)
  /\ UNCHANGED <<instanceVars, options, allowance, mined>>

\* assetUnderlyingPrice arrives; the second oracle read is issued
GetPricePrice1(t) ==
  /\ At(t, "getPrice", "price1")
  /\ Resolves(t)
  /\ \E price \in app.prices :
       Step(t, [task[t] EXCEPT
                  !.reads = Append(@, price[validateAsset(task[t].asset).underlyingName]),
                  !.pc = "price2"],
            <<PriceRead(t, validateAsset(task[t].inAsset).underlyingName)>>)
  /\ UNCHANGED <<instanceVars, options, allowance, mined>>

\* inAssetUnderlyingPrice arrives; then the exchange rates, when wrappers
GetPricePrice2(t) ==
  /\ At(t, "getPrice", "price2")
  /\ Resolves(t)
  /\ \E price \in app.prices :
       LET a == validateAsset(task[t].asset)
           b == validateAsset(task[t].inAsset)
           r == [task[t] EXCEPT !.reads = Append(@, price[b.underlyingName])]
       IN  IF a.assetIsRToken
           THEN Step(t, [r EXCEPT !.pc = "rate1"], <<ExchangeRateRead(t, a)>>)
           ELSE IF b.assetIsRToken
           THEN Step(t, [r EXCEPT !.pc = "rate2"], <<ExchangeRateRead(t, b)>>)
           ELSE Step(t, GetPriceReturn(r), <<>>)
  /\ UNCHANGED <<instanceVars, options, allowance, mined>>

\* the exchange rate of `asset` arrives
GetPriceRate1(t) ==
  /\ At(t, "getPrice", "rate1")
  /\ Resolves(t)
  /\ \E rate \in app.rates :
       LET a == validateAsset(task[t].asset)
           b == validateAsset(task[t].inAsset)
           r == [task[t] EXCEPT !.reads = Append(@, rate[a.rTokenName])]
       IN  IF b.assetIsRToken
           THEN Step(t, [r EXCEPT !.pc = "rate2"], <<ExchangeRateRead(t, b)>>)
           ELSE Step(t, GetPriceReturn(r), <<>>)
  /\ UNCHANGED <<instanceVars, options, allowance, mined>>

\* the exchange rate of `inAsset` arrives
GetPriceRate2(t) ==
  /\ At(t, "getPrice", "rate2")
  /\ Resolves(t)
  /\ \E rate \in app.rates :
       LET b == validateAsset(task[t].inAsset)
       IN  Step(t, GetPriceReturn([task[t] EXCEPT
                                     !.reads = Append(@, rate[b.rTokenName])]), <<>>)
  /\ UNCHANGED <<instanceVars, options, allowance, mined>>

\* const NETID_PRICE_FORMULA2 = [81, 592, 5, 80001]
NETID_PRICE_FORMULA2 == {81, 592, 5, 80001}

\* a conversion that divides by 10^decimals on every chain
underlyingPriceOneFormula(id, assetUnderlyingPrice, underlyingDecimals) ==
  Rational(assetUnderlyingPrice, 1, 0 - underlyingDecimals)

\* getUnderlyingPrice: price / 10 ** (26 - decimals) on the listed chains,
\* price * 10 ** -decimals on the others
underlyingPrice(id, assetUnderlyingPrice, underlyingDecimals) ==
  IF id \in NETID_PRICE_FORMULA2
  THEN Rational(assetUnderlyingPrice, 1, 0 - (26 - underlyingDecimals))
  ELSE Rational(assetUnderlyingPrice, 1, 0 - underlyingDecimals)

\* getUnderlyingPrice, from the gate to the oracle read (or throw)
GetUnderlyingPriceStart(t) ==
  /\ AtGate(t, "getUnderlyingPrice")
  /\ netIdReturns(t)
  /\ \E asset \in app.symbols :
       LET r == [task[t] EXCEPT !.asset = asset]
           v == validateAsset(asset)
       IN  IF validateAssetError(asset) # ""
           THEN Step(t, ThrowArgument(
                          IF notNonEmptyString(asset) THEN r ELSE ReadNetwork(r),
                          "Rifi [getUnderlyingPrice] | ", "asset",
                          validateAssetError(asset)), <<>>)
           ELSE Step(t, [ReadNetwork(r) EXCEPT !.pc = "underlyingPrice",
                                               !.method = "getUnderlyingPrice"],
                     <<read(t, address(network.name, "PriceFeed"),
                            "getUnderlyingPrice", <<v.rTokenAddress>>,
                            NONE, NONE, "PriceFeed")>>)
  /\ UNCHANGED <<instanceVars, options, allowance, mined>>

\* the oracle read resolves: the price is converted and returned
GetUnderlyingPriceReturn(t) ==
  /\ At(t, "getUnderlyingPrice", "underlyingPrice")
  /\ Resolves(t)
  /\ \E price \in app.prices :
       LET v == validateAsset(task[t].asset)
           raw == price[v.underlyingName]
       IN  Step(t, [task[t] EXCEPT
                      !.reads = Append(@, raw), !.pc = "resolved",
                      !.result = underlyingPrice(network.id, raw,
                                                 v.underlyingDecimals)], <<>>)
  /\ UNCHANGED <<instanceVars, options, allowance, mined>>

\* ------------------------------------------------------------ cointroller
\* an argument handling that takes a string for no array
marketsArrayOnly(markets) ==
  IF markets.kind = "undefined" THEN [items |-> <<>>, kind |-> "array"]
  ELSE markets

\* `markets = []` by default; if (typeof markets === 'string') markets = [markets]
marketsArray(markets) ==
  IF markets.kind = "undefined" THEN [items |-> <<>>, kind |-> "array"]
  ELSE IF markets.kind = "string" THEN [items |-> markets.items, kind |-> "array"]
  ELSE markets

\* enterMarkets: one segment from the gate to `return eth.trx(...)`
EnterMarketsStart(t) ==
  /\ AtGate(t, "enterMarkets")
  /\ netIdReturns(t)
  /\ \E arg \in app.markets :
       LET markets == marketsArray(arg)
           name(i) == IF StartsWithR(markets.items[i]) THEN markets.items[i]
                      ELSE RName(markets.items[i])
           addresses == [i \in 1..Len(markets.items) |->
                           address(network.name, name(i))]
           r0 == [task[t] EXCEPT !.check = arg.kind, !.reads = arg.items]
           r1 == [ReadNetwork(r0) EXCEPT
                    !.pc = "primary", !.method = "enterMarkets",
                    !.target = address(network.name, "Cointroller")]
       IN  IF markets.kind # "array"
           THEN Step(t, ThrowArgument(r0, "Rifi [enterMarkets] | ", "markets",
                                      "must be an array or string"), <<>>)
           ELSE IF \E i \in 1..Len(markets.items) : name(i) \notin rTokens
           THEN Step(t, ThrowArgument(ReadNetwork(r0), "Rifi [enterMarkets] | ",
                                      "market", "is not a recognized rToken"), <<>>)
           ELSE Step(t, r1, <<trx(t, r1.target, "enterMarkets", <<addresses>>,
                                  NONE, options.value,
                                  IF options.abi # NONE THEN options.abi
                                  ELSE "Cointroller")>>)
  /\ UNCHANGED <<instanceVars, options, allowance, mined>>

\* ---------------------------------------------------------------- rifi.ts
\* claimRifi, inside `try`: cointrollerAddress is looked up and
\* `return eth.trx(cointrollerAddress, 'claimRifi(address)', [userAddress], ...)`
ClaimRifiCalls(t) ==
  LET r == [ReadNetwork(task[t]) EXCEPT !.pc = "primary", !.user = User,
                                        !.method = "claimRifi(address)"]
  IN  Step(t, r, <<trx(t, address(network.name, "Cointroller"),
                       "claimRifi(address)", <<User>>, NONE, options.value,
                       "Cointroller")>>)

\* claimRifi, from the gate: userAddress = this._provider.address, or the
\* awaited this._provider.getAddress()
ClaimRifiStart(t) ==
  /\ AtGate(t, "claimRifi")
  /\ netIdReturns(t)
  /\ IF providerHasAddress
     THEN ClaimRifiCalls(t)
     ELSE Step(t, [task[t] EXCEPT !.pc = "claimAddress"], <<>>)
  /\ UNCHANGED <<instanceVars, options, allowance, mined>>

\* this._provider.getAddress() resolves
ClaimRifiAddress(t) ==
  /\ At(t, "claimRifi", "claimAddress")
  /\ ClaimRifiCalls(t)
  /\ UNCHANGED <<instanceVars, options, allowance, mined>>

\* this._provider.getAddress() rejects inside `try`:
\* catch (e) { e.message = errorPrefix + e.message; return e; }
ClaimRifiCatch(t) ==
  /\ At(t, "claimRifi", "claimAddress")
  /\ Step(t, [task[t] EXCEPT !.pc = "resolved", !.got = "Error",
                             !.cause = "getAddress",
                             !.msg = <<"Rifi [claimRifi] | ">>], <<>>)
  /\ UNCHANGED <<instanceVars, options, allowance, mined>>

\* --------------------------------------------------- vault.ts, the rewards
\* getRewardBalances, from the gate to the read of the pending reward
GetRewardBalancesStart(t) ==
  /\ AtGate(t, "getRewardBalances")
  /\ netIdReturns(t)
  /\ \E vault \in app.vaults :
       LET r0 == ReadNetwork([task[t] EXCEPT !.asset = vault])
           vaultAddress == address(network.name, vault)
       IN  IF vaultAddress = ""
           THEN Step(t, Throw(r0, "validation"), <<>>)
           ELSE Step(t, [r0 EXCEPT !.pc = "getUnclaimedReward", !.user = User,
                                   !.target = vaultAddress],
                     <<read(t, vaultAddress, "getUnclaimedReward", <<User>>,
                            NONE, NONE, "Vault")>>)
  /\ UNCHANGED <<instanceVars, options, allowance, mined>>

\* the pending reward is read; numVestingSchedules is read next
GetRewardBalancesPending(t) ==
  /\ At(t, "getRewardBalances", "getUnclaimedReward")
  /\ Step(t, [task[t] EXCEPT !.pc = "numVestingSchedules"],
          <<read(t, "RewardLocker", "numVestingSchedules", <<User, "RIFI">>,
                 NONE, NONE, "RewardLocker")>>)
  /\ UNCHANGED <<instanceVars, options, allowance, mined>>

\* numSchedules is read: with none, vesting = claimable = 0 is returned;
\* otherwise vestSchedulesInRange is read inside `try`
GetRewardBalancesNum(t) ==
  /\ At(t, "getRewardBalances", "numVestingSchedules")
  /\ \E numSchedules \in {0, 1} :
       IF numSchedules > 0
       THEN Step(t, [task[t] EXCEPT !.pc = "vestSchedulesInRange",
                                    !.reads = Append(@, numSchedules)],
                 <<read(t, "RewardLocker", "vestSchedulesInRange", <<"RIFI">>,
                        numSchedules - 1, NONE, "RewardLocker")>>)
       ELSE Step(t, [task[t] EXCEPT !.pc = "resolved", !.amt = 0,
                                    !.reads = Append(@, numSchedules),
                                    !.got = "RewardBalances"], <<>>)
  /\ UNCHANGED <<instanceVars, options, allowance, mined>>

\* eth.read(lockerAddress, "getVestingSchedules", [userAddress, tokenAddress], ...)
\* with claimable settled
GetRewardBalancesSchedules(t, claimable, failure) ==
  Step(t, [task[t] EXCEPT !.pc = "getVestingSchedules", !.amt = claimable,
                          !.cause = failure],
       <<read(t, "RewardLocker", "getVestingSchedules", <<User, "RIFI">>,
              NONE, NONE, "RewardLocker")>>)

\* vestSchedulesInRange resolves with the claimable amount
GetRewardBalancesClaimable(t) ==
  /\ At(t, "getRewardBalances", "vestSchedulesInRange")
  /\ \E claimable \in {0, 5} : GetRewardBalancesSchedules(t, claimable, "none")
  /\ UNCHANGED <<instanceVars, options, allowance, mined>>

\* vestSchedulesInRange rejects:
\* catch (err) { console.error(...); claimable = BigNumber.from(0); }
GetRewardBalancesCatch(t) ==
  /\ At(t, "getRewardBalances", "vestSchedulesInRange")
  /\ GetRewardBalancesSchedules(t, 0, "vestSchedulesInRange")
  /\ UNCHANGED <<instanceVars, options, allowance, mined>>

\* the schedules are read: { pending, vesting, claimable } is returned
GetRewardBalancesReturn(t) ==
  /\ At(t, "getRewardBalances", "getVestingSchedules")
  /\ Step(t, [task[t] EXCEPT !.pc = "resolved", !.got = "RewardBalances"], <<>>)
  /\ UNCHANGED <<instanceVars, options, allowance, mined>>

\* getRifiBalance / getRifiAccrued (static): first
\* `await eth._createProvider(...)`, `await eth.getProviderNetwork(provider)`
InvokeStatic(t) ==
  /\ task[t].pc = "idle"
  /\ \E op \in app.ops \cap StaticOperations :
       task' = [task EXCEPT ![t] = [Idle EXCEPT !.op = op, !.pc = "probe",
                                                !.probes = 1]]
  /\ UNCHANGED <<instanceVars, options, calls, allowance, mined>>

\* the operation's own probe resolves; `_address` is checked, then the read
StaticProbed(t) ==
  /\ task[t].op \in StaticOperations /\ task[t].pc = "probe"
  /\ \E id \in ChainIds, addr \in app.addresses :
       LET net == [id |-> id, name |-> getNetNameWithChainId(id)]
           r0 == [task[t] EXCEPT !.borrower = addr, !.sawNet = net]
       IN  IF ~isString(addr) \/ ~isAddress(addr)
           THEN Step(t, Throw(r0, "validation"), <<>>)
           ELSE IF r0.op = "getRifiBalance"
           THEN Step(t, [r0 EXCEPT !.pc = "primary", !.method = "balanceOf"],
                     <<read(t, "RIFI", "balanceOf", <<addr>>, NONE, NONE, "RIFI")>>)
           ELSE Step(t, [r0 EXCEPT !.pc = "primary",
                                   !.method = "getRifiBalanceMetadataExt"],
                     <<read(t, "RifiLens", "getRifiBalanceMetadataExt",
                            <<"RIFI", "Cointroller", addr>>, NONE, NONE, "RifiLens")>>)
  /\ UNCHANGED <<instanceVars, options, allowance, mined>>

\* ---------------------------------------------------------------- chain
IsApprove(c) == c.mode = "send" /\ c.method = "approve"

\* the chain executes the next submitted approve: allowance[spender] := amount
Mine ==
  /\ \E i \in (mined + 1)..Len(calls) :
       /\ IsApprove(calls[i])
       /\ \A j \in (mined + 1)..(i - 1) : ~IsApprove(calls[j])
       /\ allowance' = [allowance EXCEPT ![calls[i].addrs[1]] = calls[i].amount]
       /\ mined' = i
  /\ UNCHANGED <<instanceVars, options, task, calls>>

\* ------------------------------------------------------------------ next
Next ==
  \/ ProbeResolve
  \/ ProbeFail
  \/ Mine
  \/ \E t \in Tasks : Invoke(t)
  \/ \E t \in Tasks : InvokeTokenRead(t)
  \/ \E t \in Tasks : InvokeStatic(t)
  \/ \E t \in Tasks : GateReject(t)
  \/ \E t \in Tasks : AwaitRejects(t)
  \/ \E t \in Tasks : PrimarySettles(t)
  \/ \E t \in Tasks : SupplyStart(t)
  \/ \E t \in Tasks : SupplyGotAddress(t)
  \/ \E t \in Tasks : SupplyAllowance(t)
  \/ \E t \in Tasks : SupplyApproved(t)
  \/ \E t \in Tasks : RedeemStart(t)
  \/ \E t \in Tasks : BorrowStart(t)
  \/ \E t \in Tasks : RepayStart(t)
  \/ \E t \in Tasks : RepayAllowance(t)
  \/ \E t \in Tasks : RepayApproved(t)
  \/ \E t \in Tasks : TokenReadStart(t)
  \/ \E t \in Tasks : DepositStart(t)
  \/ \E t \in Tasks : DepositGotAddress(t)
  \/ \E t \in Tasks : DepositCheckSettles(t)
  \/ \E t \in Tasks : WithdrawStart(t)
  \/ \E t \in Tasks : DepositEnabledStart(t)
  \/ \E t \in Tasks : DepositEnabledGotAddress(t)
  \/ \E t \in Tasks : DepositEnabledAllowance(t)
  \/ \E t \in Tasks : EnableDepositStart(t)
  \/ \E t \in Tasks : EnableDepositGotAddress(t)
  \/ \E t \in Tasks : EnableDepositAllowance(t)
  \/ \E t \in Tasks : GetPriceStart(t)
  \/ \E t \in Tasks : GetPricePrice1(t)
  \/ \E t \in Tasks : GetPricePrice2(t)
  \/ \E t \in Tasks : GetPriceRate1(t)
  \/ \E t \in Tasks : GetPriceRate2(t)
  \/ \E t \in Tasks : GetUnderlyingPriceStart(t)
  \/ \E t \in Tasks : EnterMarketsStart(t)
  \/ \E t \in Tasks : ClaimRifiStart(t)
  \/ \E t \in Tasks : ClaimRifiAddress(t)
  \/ \E t \in Tasks : ClaimRifiCatch(t)
  \/ \E t \in Tasks : GetRewardBalancesStart(t)
  \/ \E t \in Tasks : GetRewardBalancesPending(t)
  \/ \E t \in Tasks : GetRewardBalancesNum(t)
  \/ \E t \in Tasks : GetRewardBalancesClaimable(t)
  \/ \E t \in Tasks : GetRewardBalancesCatch(t)
  \/ \E t \in Tasks : GetRewardBalancesReturn(t)
  \/ \E t \in Tasks : InvokeDispatcher(t)
  \/ \E t \in Tasks : DispatcherResolves(t)
  \/ \E t \in Tasks : DispatcherRejects(t)
  \/ \E t \in Tasks : GetUnderlyingPriceReturn(t)
  \/ \E t \in Tasks : StaticProbed(t)

Spec == Init /\ [][Next]_vars

\* several operations in flight on one instance, each called with one
\* well-formed argument list
GateInputs ==
  [ops |-> {"borrow", "tokenRead"}, assets |-> {"USDC"},
   symbols |-> {"rUSDC"}, amounts |-> {1}, withdrawals |-> {2},
   borrowers |-> {Null}, addresses |-> {"0xBorrower"}, vaults |-> {"UsdcVault"},
   funcs |-> FuncInputs, flags |-> {FALSE},
   prices |-> {[u \in underlyings |-> 2]}, rates |-> {[w \in rTokens |-> 2]}]

InitGate == Construct(MaxTasks, GateInputs, {0})

NextGate ==
  \/ ProbeResolve
  \/ ProbeFail
  \/ \E t \in Tasks : Invoke(t)
  \/ \E t \in Tasks : InvokeTokenRead(t)
  \/ \E t \in Tasks : GateReject(t)
  \/ \E t \in Tasks : AwaitRejects(t)
  \/ \E t \in Tasks : PrimarySettles(t)
  \/ \E t \in Tasks : BorrowStart(t)
  \/ \E t \in Tasks : TokenReadStart(t)

SpecGate == InitGate /\ [][NextGate]_vars

\* ------------------------------------------- two supply calls in flight
\* two calls, each a supply or a borrow of BNB or USDC, of 1 or 2, are made
\* on one instance with one options object, without awaiting one another;
\* the allowance starts at 0
InitRace ==
  /\ Construct(2, [GateInputs EXCEPT !.ops = {"supply", "borrow"},
                                     !.assets = {"BNB", "USDC"},
                                     !.amounts = {1, 2}], {0})
  /\ providerHasAddress

NextRace ==
  \/ ProbeResolve
  \/ Mine
  \/ \E t \in Tasks : Invoke(t)
  \/ \E t \in Tasks : SupplyStart(t)
  \/ \E t \in Tasks : SupplyAllowance(t)
  \/ \E t \in Tasks : SupplyApproved(t)
  \/ \E t \in Tasks : BorrowStart(t)
  \/ \E t \in Tasks : PrimarySettles(t)

SpecRace == InitRace /\ [][NextRace]_vars

\* ------------------------------------------------- prices at a fixed state
\* two getPrice calls, made one after the other on one instance, while the
\* oracle prices and the exchange rates do not change: every read of a
\* symbol returns the same value
PriceSymbols == {"BNB", "USDC", "rBNB", "rUSDC"}

PriceInputs(price, rate) ==
  [ops |-> {"getPrice"}, assets |-> {"USDC"}, symbols |-> PriceSymbols,
   amounts |-> {1}, withdrawals |-> {2}, borrowers |-> {Null},
   addresses |-> {"0xBorrower"}, vaults |-> {"UsdcVault"},
   funcs |-> {"totalSupply"}, flags |-> {FALSE},
   prices |-> {price}, rates |-> {rate}]

InitPrice ==
  \E price \in [underlyings -> PriceValues], rate \in [rTokens -> RateValues] :
    Construct(2, PriceInputs(price, rate), {0}) /\ providerHasAddress

Settled(t) == task[t].pc \in {"idle", "resolved", "rejected"}

\* the application awaits one call before it makes the next
InvokeInTurn(t) == Invoke(t) /\ \A u \in Tasks \ {t} : Settled(u)

NextPrice ==
  \/ ProbeResolve
  \/ \E t \in Tasks : InvokeInTurn(t)
  \/ \E t \in Tasks : GetPriceStart(t)
  \/ \E t \in Tasks : GetPricePrice1(t)
  \/ \E t \in Tasks : GetPricePrice2(t)
  \/ \E t \in Tasks : GetPriceRate1(t)
  \/ \E t \in Tasks : GetPriceRate2(t)

SpecPrice == InitPrice /\ [][NextPrice]_vars

\* three getPrice calls in turn at one oracle state: the price of USDC is 2
\* and of BNB 3, the exchange rate of rUSDC is 2 and of rBNB 3
InitChain ==
  /\ Construct(3, PriceInputs([u \in underlyings |-> IF u = "USDC" THEN 2 ELSE 3],
                              [w \in rTokens |-> IF w = "rUSDC" THEN 2 ELSE 3]),
               {0})
  /\ providerHasAddress

SpecChain == InitChain /\ [][NextPrice]_vars

\* ------------------------------------------------- enabling vault deposits
\* three depositEnabled / enableDeposit calls made one after the other on
\* one instance, with the user's allowance toward the vault starting around
\* SAFE_ALLOWANCE; the chain applies a submitted approve at any later time
InitVault ==
  /\ Construct(3, [GateInputs EXCEPT !.ops = {"depositEnabled", "enableDeposit"}],
               {0, SAFE_ALLOWANCE - 1, SAFE_ALLOWANCE, MAX_ALLOWANCE})
  /\ providerHasAddress

NextVault ==
  \/ ProbeResolve
  \/ Mine
  \/ \E t \in Tasks : InvokeInTurn(t)
  \/ \E t \in Tasks : DepositEnabledStart(t)
  \/ \E t \in Tasks : DepositEnabledGotAddress(t)
  \/ \E t \in Tasks : DepositEnabledAllowance(t)
  \/ \E t \in Tasks : EnableDepositStart(t)
  \/ \E t \in Tasks : EnableDepositGotAddress(t)
  \/ \E t \in Tasks : EnableDepositAllowance(t)
  \/ \E t \in Tasks : PrimarySettles(t)

SpecVault == InitVault /\ [][NextVault]_vars

\* ------------------------------------------------------- request, queryApi
\* queryApi calls made on one platform: `_request` is _webBrowserRequest where
\* `window` exists and _nodeJsRequest elsewhere.  Of a call, `reads` and
\* `check` hold the status and the body of the response the request promise
\* resolved with, `cause` the value it (or the then-handler) rejected with,
\* `amount` the handler's responseCode.
InitHttp ==
  /\ \E platform \in {"nodejs", "browser"} :
       Construct(MaxTasks, [ops |-> {"queryApi"}, platform |-> platform,
                            statuses |-> {200, 302, 404},
                            bodies |-> {"json", "text"}], {0})
  /\ providerHasAddress

\* queryApi(options, name, path): request({...}) is called and the promise
\* is returned
QueryApi(t) ==
  /\ task[t].pc = "idle"
  /\ task' = [task EXCEPT ![t] = [Idle EXCEPT !.op = "queryApi", !.pc = "request"]]
  /\ UNCHANGED <<instanceVars, options, calls, allowance, mined>>

\* res.on("end"): resolve({ status, statusText, body })
nodeJsRequestEnd(t) ==
  /\ app.platform = "nodejs" /\ task[t].pc = "request"
  /\ \E status \in app.statuses, body \in app.bodies :
       task' = [task EXCEPT ![t].pc = "then", ![t].reads = <<status>>,
                            ![t].check = body]
  /\ UNCHANGED <<instanceVars, options, calls, allowance, mined>>

\* req.on("timeout"): req.abort(); reject({ status: 408, statusText })
nodeJsRequestTimeout(t) ==
  /\ app.platform = "nodejs" /\ task[t].pc = "request"
  /\ task' = [task EXCEPT ![t].pc = "catch", ![t].cause = "[object Object]"]
  /\ UNCHANGED <<instanceVars, options, calls, allowance, mined>>

\* req.on("error") of a request that was not aborted: the error is printed
\* and `return reject()` rejects with undefined
nodeJsRequestError(t) ==
  /\ app.platform = "nodejs" /\ task[t].pc = "request"
  /\ task' = [task EXCEPT ![t].pc = "catch", ![t].cause = Undefined]
  /\ UNCHANGED <<instanceVars, options, calls, allowance, mined>>

\* xhr.onload: a status in [100, 400) resolves with the response when it
\* parses and with the status text as body otherwise; any other status
\* rejects with { status, statusText }
webBrowserRequestLoad(t) ==
  /\ app.platform = "browser" /\ task[t].pc = "request"
  /\ \E status \in app.statuses, body \in app.bodies :
       IF status >= 100 /\ status < 400
       THEN task' = [task EXCEPT ![t].pc = "then", ![t].reads = <<status>>,
                                 ![t].check = IF body = "json" THEN "json"
                                              ELSE "statusText"]
       ELSE task' = [task EXCEPT ![t].pc = "catch", ![t].cause = "[object Object]"]
  /\ UNCHANGED <<instanceVars, options, calls, allowance, mined>>

\* the request times out or the transport fails: xhr.onerror, xhr.ontimeout
\* and xhr.onabort are not set, so neither resolve nor reject is ever called
webBrowserRequestError(t) ==
  /\ app.platform = "browser" /\ task[t].pc = "request"
  /\ task' = [task EXCEPT ![t].pc = "pending"]
  /\ UNCHANGED <<instanceVars, options, calls, allowance, mined>>

\* .then((response) => {...}): JSON.parse(response.body) throws a SyntaxError,
\* a 2xx status resolves with the parsed body, any other status throws a string
queryApiThen(t) ==
  /\ At(t, "queryApi", "then")
  /\ LET responseCode == task[t].reads[1]
         r == [task[t] EXCEPT !.amount = responseCode]
     IN  task' = [task EXCEPT ![t] =
           IF r.check # "json"
           THEN [r EXCEPT !.pc = "catch", !.cause = "SyntaxError"]
           ELSE IF responseCode >= 200 /\ responseCode <= 299
           THEN [r EXCEPT !.pc = "resolved", !.got = "responseBody"]
           ELSE [r EXCEPT !.pc = "catch",
                          !.cause = "Invalid request made to the Rifi API."]]
  /\ UNCHANGED <<instanceVars, options, calls, allowance, mined>>

\* .catch((error) => {...}): `error.name` of undefined throws a TypeError out
\* of the handler, and reject is not called; otherwise
\* reject({ error: errorMessage, responseCode, responseMessage })
queryApiCatch(t) ==
  /\ At(t, "queryApi", "catch")
  /\ LET error == task[t].cause
         errorMessage == IF error = "SyntaxError"
                         THEN "Unable to parse response body."
                         ELSE error
     IN  task' = [task EXCEPT ![t] =
           IF error = Undefined
           THEN [@ EXCEPT !.pc = "pending", !.err = "TypeError"]
           ELSE [Throw(@, "api") EXCEPT !.msg = <<"Rifi [api] | ", errorMessage>>]]
  /\ UNCHANGED <<instanceVars, options, calls, allowance, mined>>

NextHttp ==
  \/ \E t \in Tasks : QueryApi(t)
  \/ \E t \in Tasks : nodeJsRequestEnd(t)
  \/ \E t \in Tasks : nodeJsRequestTimeout(t)
  \/ \E t \in Tasks : nodeJsRequestError(t)
  \/ \E t \in Tasks : webBrowserRequestLoad(t)
  \/ \E t \in Tasks : webBrowserRequestError(t)
  \/ \E t \in Tasks : queryApiThen(t)
  \/ \E t \in Tasks : queryApiCatch(t)

\* the event loop runs every handler that is ready, and every request meets
\* one of its outcomes
SpecHttp == InitHttp /\ [][NextHttp]_vars /\ WF_vars(NextHttp)

\* ================================================================ claims
InstanceOp(t) == task[t].op \in Operations

HasCalls(t) == CallsOf(calls, t) # <<>>

\* the amount a transaction carries: the value override, else the amount parameter
Carried(c) == IF c.value # NONE THEN c.value ELSE c.amount

\* n * 10^e = d, without computing 10^e
RECURSIVE ScaledEq(_, _, _)
ScaledEq(n, d, e) ==
  IF e = 0 THEN n = d
  ELSE IF e > 0 THEN d % 10 = 0 /\ ScaledEq(n, d \div 10, e - 1)
  ELSE n % 10 = 0 /\ ScaledEq(n \div 10, d, e + 1)

IsOne(q) == q.den # 0 /\ ScaledEq(q.num, q.den, q.exp)

\* C1: an operation called on the instance has not read the network
\* descriptor, has issued no dispatcher call and is not past its gate wait
\* unless the network probe has resolved; what it reads is the resolved
\* descriptor.
GateBeforeNetwork ==
  \A t \in Tasks :
    ( /\ InstanceOp(t)
      /\ \/ task[t].readNet
         \/ HasCalls(t)
         \/ task[t].pc \notin {"idle", "gate", "rejected"} )
    => /\ probe = "resolved"
       /\ network # NoNetwork
       /\ task[t].readNet => task[t].sawNet = network

\* an operation that was called while the probe was pending, waited, and then
\* reached the dispatcher
GateWaitedThenCalled ==
  \E t \in Tasks :
    InstanceOp(t) /\ task[t].awaitsProbe /\ task[t].readNet /\ HasCalls(t)

\* C2: one probe per instance; the descriptor is written at most once, by
\* the probe's completion, in the step that discards the probe handle; no
\* operation writes the descriptor or the provider handle; every operation
\* past its gate has observed the same descriptor.
OneNetworkResolution ==
  /\ [](/\ probesStarted = 1
        /\ providerWrites = 1
        /\ networkPromise <=> network = NoNetwork
        /\ \A t \in Tasks : task[t].readNet =>
             task[t].sawNet = network /\ network # NoNetwork)
  /\ [][/\ network # NoNetwork => network' = network
        /\ network' # network =>
             /\ probe = "pending" /\ probe' = "resolved"
             /\ networkPromise /\ ~networkPromise'
             /\ task' = task]_vars

\* two operations past the gate, one that waited for the probe and one that
\* was called after it resolved, both holding the resolved descriptor
TwoOperationsSameNetwork ==
  \E t1, t2 \in Tasks :
    /\ task[t1].readNet /\ task[t1].awaitsProbe
    /\ task[t2].readNet /\ ~task[t2].awaitsProbe
    /\ task[t1].sawNet = task[t2].sawNet

\* C3 (as stated): once the probe has failed, the handle stays, the
\* descriptor stays unset, no operation reaches the dispatcher, and every
\* operation that is no longer waiting has rejected with the probe's failure.
ProbeFailureRejectsAll ==
  probe = "failed" =>
    /\ networkPromise /\ network = NoNetwork
    /\ \A t \in Tasks : InstanceOp(t) => ~HasCalls(t)
    /\ \A t \in Tasks : (InstanceOp(t) /\ task[t].pc \notin {"idle", "gate"}) =>
         task[t].pc = "rejected" /\ task[t].err = "probe"

\* C3 (amended): the same, except that tokenRead called with a function name
\* outside READ_FUNCTIONS rejects with its validation error, without
\* reaching the gate.
ProbeFailureRejects ==
  probe = "failed" =>
    /\ networkPromise /\ network = NoNetwork
    /\ \A t \in Tasks : InstanceOp(t) => ~HasCalls(t)
    /\ \A t \in Tasks : (InstanceOp(t) /\ task[t].pc \notin {"idle", "gate"}) =>
         /\ task[t].pc = "rejected"
         /\ \/ task[t].err = "probe"
            \/ /\ task[t].op = "tokenRead" /\ task[t].err = "validation"
               /\ ~task[t].readNet /\ ~task[t].awaitsProbe

\* the probe has failed and two operations have rejected with its failure
TwoRejectedByProbe ==
  /\ probe = "failed"
  /\ \E t1, t2 \in Tasks :
       /\ t1 # t2
       /\ task[t1].pc = "rejected" /\ task[t1].err = "probe"
       /\ task[t2].pc = "rejected" /\ task[t2].err = "probe"
       /\ task[t1].op # task[t2].op

\* C4: an operation that rejects with a validation error has started no
\* network call before: no provider-network probe, no dispatcher call.
ValidationBeforeNetwork ==
  \A t \in Tasks :
    (task[t].pc = "rejected" /\ task[t].err = "validation") =>
      task[t].probes = 0 /\ ~HasCalls(t)

\* C5: supply / repayBorrow of a token asset without noApprove: the first
\* call is the one allowance read, owner = user and spender = wrapper; an
\* approve of the amount follows iff the allowance read is below the amount;
\* the primary transaction is not submitted while the approve is awaited; with
\* enough allowance the primary transaction is the only transaction.
ApprovalFlowOf(t) ==
  /\ task[t].op \in {"supply", "repayBorrow"}
  /\ task[t].asset \in underlyings /\ RName(task[t].asset) # rBNB
  /\ ~task[t].noApprove
  /\ HasCalls(t)

ApprovalFlow ==
  \A t \in Tasks : ApprovalFlowOf(t) =>
    LET cs == CallsOf(calls, t)
        r == task[t]
        writes == {i \in 1..Len(cs) : cs[i].write}
    IN  /\ ~cs[1].write /\ cs[1].method = "allowance"
        /\ cs[1].addrs = <<User, address(r.sawNet.name, RName(r.asset))>>
        /\ \A i \in 2..Len(cs) : cs[i].write
        /\ r.pc = "allowance" => Len(cs) = 1
        /\ Len(cs) >= 2 =>
             /\ r.reads # <<>>
             /\ (cs[2].method = "approve") <=> (r.reads[1] < r.amt)
             /\ cs[2].method = "approve" => cs[2].amount = r.amt
             /\ cs[2].method # "approve" => (cs[2].method = r.method /\ Len(cs) = 2)
        /\ r.pc = "approve" => Len(cs) = 2
        /\ Len(cs) >= 3 => (cs[3].method = r.method /\ Len(cs) = 3)

\* C6: vault deposit without noApprove: the deposit transaction is submitted
\* only once the allowance check is known, and after an approve of the amount
\* when the allowance is smaller than the amount.
DepositApprovesFirst ==
  \A t \in Tasks :
    LET cs == CallsOf(calls, t)
        r == task[t]
    IN  ( /\ r.op = "deposit" /\ ~r.noApprove
          /\ \E i \in 1..Len(cs) : cs[i].method = "deposit" )
        => /\ r.check = "settled"
           /\ r.reads[1] < r.amt =>
                \E i, j \in 1..Len(cs) :
                  /\ i < j
                  /\ cs[i].method = "approve" /\ cs[i].amount = r.amt
                  /\ cs[j].method = "deposit"

\* C7: with noApprove = true, supply, repayBorrow and vault deposit make one
\* dispatcher call at most, the primary transaction: no allowance read and
\* no approve.
NoApproveOnlyPrimary ==
  \A t \in Tasks :
    (task[t].op \in {"supply", "repayBorrow", "deposit"} /\ task[t].noApprove) =>
      LET cs == CallsOf(calls, t)
      IN  /\ Len(cs) <= 1
          /\ \A i \in 1..Len(cs) :
               /\ cs[i].write
               /\ cs[i].method = task[t].method
               /\ cs[i].method \notin {"allowance", "approve"}

\* one of the three operations has resolved with noApprove = true on a token
\* whose allowance is below the amount, having made the one call
NoApproveWithoutAllowance ==
  \E t \in Tasks :
    /\ task[t].op \in {"supply", "repayBorrow", "deposit"}
    /\ task[t].noApprove /\ task[t].pc = "resolved"
    /\ task[t].asset \in {"USDC", "UsdcVault"}
    /\ allowance[IF task[t].op = "deposit" THEN "UsdcVault" ELSE "rUSDC"] < task[t].amt
    /\ Len(CallsOf(calls, t)) = 1

\* the symbol whose decimals scale the amount of the operation of record r
UnitOf(r) ==
  IF r.op \in {"deposit", "withdraw"} THEN depositToken(r.sawNet.name, r.asset)
  ELSE r.asset

\* call c is the primary transaction of an operation that takes an amount
IsAmountPrimary(c) ==
  LET r == task[c.t]
  IN  /\ c.write
      /\ r.op \in {"supply", "redeem", "borrow", "repayBorrow", "deposit", "withdraw"}
      /\ c.method = r.method
      /\ c.method # "withdrawAll"
      /\ ~(r.op = "repayBorrow" /\ r.maxRepay)

\* supply / repayBorrow of the native coin: the amount travels as the value override
CarriesValue(r) == r.op \in {"supply", "repayBorrow"} /\ RName(r.asset) = rBNB

\* C8: the primary transaction of supply, redeem, borrow, repayBorrow
\* (without maxRepay), vault deposit and vault withdraw carries exactly the
\* caller's amount when mantissa is true, and the caller's amount times
\* 10^decimals of the asset otherwise; it is carried as the value override
\* for native-coin supply / repay and as the amount parameter otherwise.
\* (redeem throws at its symbol test, see RedeemStart, and submits no
\* transaction: the statement is carried by the other five operations.)
MantissaBypass ==
  \A i \in 1..Len(calls) :
    LET c == calls[i]
        r == task[c.t]
    IN  IsAmountPrimary(c) =>
          /\ Carried(c) = IF r.mantissa THEN r.amount
                          ELSE r.amount * Pow10(decimals(UnitOf(r)))
          /\ IF CarriesValue(r) THEN c.value # NONE /\ c.amount = NONE
             ELSE c.amount # NONE /\ c.value = NONE

\* a native-coin supply with mantissa true and amount 2 has submitted its
\* mint carrying 2 as the value override
MantissaCarriedUnscaled ==
  \E i \in 1..Len(calls) :
    LET c == calls[i]
        r == task[c.t]
    IN  /\ IsAmountPrimary(c) /\ r.mantissa
        /\ r.op = "supply" /\ CarriesValue(r)
        /\ r.amount = 2 /\ c.value = 2

\* C9: repayBorrow with maxRepay on a token asset: every transaction of the
\* operation (the approve, the repay) has amount parameter 2^256 - 1 (here
\* MAX_UINT) and no value override, whatever the amount argument and the
\* mantissa flag; the approve is submitted iff the allowance read is below
\* that sentinel.
MaxRepayOf(t) ==
  /\ task[t].op = "repayBorrow" /\ task[t].maxRepay
  /\ task[t].asset \in underlyings /\ RName(task[t].asset) # rBNB

MaxRepaySentinel ==
  \A t \in Tasks : MaxRepayOf(t) =>
    LET cs == CallsOf(calls, t)
        r == task[t]
    IN  /\ \A i \in 1..Len(cs) : cs[i].write =>
             /\ cs[i].amount = MAX_UINT /\ cs[i].value = NONE
             /\ cs[i].method \in {"approve", r.method}
        /\ r.reads # <<>> =>
             ((\E i \in 1..Len(cs) : cs[i].method = "approve") <=> r.reads[1] < MAX_UINT)

\* a maxRepay of a token has resolved after an approve of the sentinel, with
\* mantissa unset and an amount argument of 1
MaxRepayApprovedAndRepaid ==
  \E t \in Tasks :
    LET cs == CallsOf(calls, t)
    IN  /\ MaxRepayOf(t) /\ task[t].pc = "resolved"
        /\ ~task[t].mantissa /\ task[t].amount = 1
        /\ Len(cs) = 3
        /\ cs[2].method = "approve" /\ cs[2].amount = MAX_UINT
        /\ cs[3].method = task[t].method /\ cs[3].amount = MAX_UINT

\* C10: getPrice(a, a) resolves to exactly 1, whatever the oracle price reads
\* and the exchange-rate reads of the call returned.
SelfPriceIsOne ==
  \A t \in Tasks :
    ( /\ task[t].op = "getPrice" /\ task[t].pc = "resolved"
      /\ task[t].asset = task[t].inAsset )
    => IsOne(task[t].result)

\* the product of two rationals
Times(p, q) == Rational(p.num * q.num, p.den * q.den, p.exp + q.exp)

\* t and u are getPrice calls that resolved, u with the arguments of t swapped
Reciprocal(t, u) ==
  /\ task[t].op = "getPrice" /\ task[t].pc = "resolved"
  /\ task[u].op = "getPrice" /\ task[u].pc = "resolved"
  /\ task[t].asset = task[u].inAsset /\ task[t].inAsset = task[u].asset

\* ------------------------------------------- util.parseUnits on its own
\* a value is a decimal with FractionDigits digits after the point, held as
\* the integer value * 10^FractionDigits
FractionDigits == 3
MaxUnitsValue == 120
MaxUnitsDecimals == 2

\* Number.prototype.toFixed(digits), as the integer of its digits: the nearest
\* decimal with that many fraction digits; where the two neighbours are
\* equally near in decimal, the binary value of the number decides
toFixed(value, digits) ==
  IF digits >= FractionDigits THEN {value * Pow10(digits - FractionDigits)}
  ELSE LET unit == Pow10(FractionDigits - digits)
           q == value \div unit
           r == value % unit
       IN  IF 2 * r < unit THEN {q}
           ELSE IF 2 * r > unit THEN {q + 1}
           ELSE {q, q + 1}

\* util.parseUnits(value, decimals): toFixed(decimals + 1), the last digit
\* dropped, the rest parsed as an integer of 10^-decimals
utilParseUnits(value, dec) == {f \div 10 : f \in toFixed(value, dec + 1)}

UnitsInputs(value, dec) ==
  [ops |-> {"parseUnits"}, amounts |-> {value}, decimals |-> {dec}]

InitUnits ==
  \E value \in 0..MaxUnitsValue, dec \in 0..MaxUnitsDecimals :
    Construct(1, UnitsInputs(value, dec), {0}) /\ providerHasAddress

\* the application calls util.parseUnits(value, decimals)
ParseUnitsCall(t) ==
  /\ task[t].pc = "idle"
  /\ \E value \in app.amounts, dec \in app.decimals :
     \E m \in utilParseUnits(value, dec) :
       task' = [task EXCEPT ![t] = [Idle EXCEPT !.op = "parseUnits",
                                               !.pc = "resolved",
                                               !.amount = value, !.amt = m]]
  /\ UNCHANGED <<instanceVars, options, calls, allowance, mined>>

NextUnits == \E t \in Tasks : ParseUnitsCall(t)

SpecUnits == InitUnits /\ [][NextUnits]_vars

\* C11: at a fixed oracle and exchange-rate state, for every pair of
\* symbols (a, b), plain or wrapper, getPrice(a, b) * getPrice(b, a) = 1.
PriceReciprocity ==
  \A t, u \in Tasks :
    Reciprocal(t, u) => IsOne(Times(task[t].result, task[u].result))

\* getPrice(rUSDC, BNB) and getPrice(BNB, rUSDC) have both resolved where
\* the two oracle prices differ
ReciprocalPairPriced ==
  \E t, u \in Tasks :
    /\ t # u /\ Reciprocal(t, u)
    /\ task[t].asset = "rUSDC" /\ task[t].inAsset = "BNB"
    /\ task[t].reads[1] # task[t].reads[2]

\* the quotient of two rationals
Over(p, q) == Rational(p.num * q.den, p.den * q.num, p.exp - q.exp)

\* two rationals are the same number
RatEq(p, q) == ScaledEq(p.num * q.den, p.den * q.num, p.exp - q.exp)

\* rate(w) = exchangeRate(w) / 10^(18 + underlyingDecimals(w) - 8)
RateOf(w, exchangeRate) ==
  Rational(exchangeRate, 1, 0 - (18 + decimals(Slice1(w)) - 8))

\* the underlying symbol of a plain or wrapper symbol
UnderlyingOf(sym) == IF StartsWithR(sym) THEN Slice1(sym) ELSE sym

\* C12: a resolved getPrice(asset, inAsset) has read the oracle price of the
\* underlying of asset, then of inAsset, then the exchange rate of each
\* wrapper side, and with P the ratio of the two prices its result is P
\* (no wrapper), P * rate(asset) (asset a wrapper), P / rate(inAsset)
\* (inAsset a wrapper), (P / rate(asset)) * rate(inAsset) (both wrappers).
CombinationRule ==
  \A t \in Tasks :
    (task[t].op = "getPrice" /\ task[t].pc = "resolved") =>
      LET r == task[t]
          cs == CallsOf(calls, t)
          aw == StartsWithR(r.asset)
          bw == StartsWithR(r.inAsset)
          P == Rational(r.reads[1], r.reads[2], 0)
          expected ==
            IF ~aw /\ ~bw THEN P
            ELSE IF aw /\ ~bw THEN Times(P, RateOf(r.asset, r.reads[3]))
            ELSE IF ~aw /\ bw THEN Over(P, RateOf(r.inAsset, r.reads[3]))
            ELSE Times(Over(P, RateOf(r.asset, r.reads[3])),
                       RateOf(r.inAsset, r.reads[4]))
      IN  /\ Len(cs) = Len(r.reads)
          /\ Len(cs) = 2 + (IF aw THEN 1 ELSE 0) + (IF bw THEN 1 ELSE 0)
          /\ cs[1].method = "price" /\ cs[1].addrs = <<UnderlyingOf(r.asset)>>
          /\ cs[2].method = "price" /\ cs[2].addrs = <<UnderlyingOf(r.inAsset)>>
          /\ aw => (cs[3].method = "exchangeRateCurrent" /\ cs[3].target = r.asset)
          /\ bw => ( /\ cs[Len(cs)].method = "exchangeRateCurrent"
                     /\ cs[Len(cs)].target = r.inAsset )
          /\ \A i \in 1..Len(cs) : ~cs[i].write
          /\ RatEq(r.result, expected)

\* getPrice(rUSDC, rBNB) has resolved where the two prices differ and the
\* two exchange rates differ
TwoWrappersPriced ==
  \E t \in Tasks :
    /\ task[t].op = "getPrice" /\ task[t].pc = "resolved"
    /\ task[t].asset = "rUSDC" /\ task[t].inAsset = "rBNB"
    /\ task[t].reads[1] # task[t].reads[2]
    /\ task[t].reads[3] # task[t].reads[4]

\* the symbol names a wrapper registered on the network with a supported
\* underlying, or an asset the oracle supports
SupportedSymbol(sym) ==
  LET w == IF StartsWithR(sym) THEN sym ELSE RName(sym)
  IN  (w \in rTokens /\ UnderlyingOf(sym) \in underlyings)
        \/ UnderlyingOf(sym) \in opfAssets

\* the message getPrice owes for its arguments: <<>> when both are accepted
GetPriceMessage(asset, inAsset) ==
  LET Of(argument, sym) ==
        IF notNonEmptyString(sym)
        THEN <<"Rifi [getPrice] | ", argument, "must be a non-empty string">>
        ELSE IF ~SupportedSymbol(sym)
        THEN <<"Rifi [getPrice] | ", argument, "is not supported">>
        ELSE <<>>
  IN  IF Of("asset", asset) # <<>> THEN Of("asset", asset)
      ELSE Of("inAsset", inAsset)

\* C13: getPrice validates asset, then inAsset, before any read: a call
\* with an argument that is no non-empty string, or names no supported
\* symbol, rejects with the message of the first offending argument and has
\* made no dispatcher call; a call that is past validation has two accepted
\* arguments.
GetPriceValidation ==
  \A t \in Tasks :
    ( /\ task[t].op = "getPrice"
      /\ task[t].pc \notin {"idle", "gate"} /\ task[t].err # "probe" ) =>
      LET r == task[t]
          owed == GetPriceMessage(r.asset, r.inAsset)
      IN  IF owed # <<>>
          THEN /\ r.pc = "rejected" /\ r.err = "validation"
               /\ r.msg = owed
               /\ ~HasCalls(t)
          ELSE r.msg = <<>> /\ r.err # "validation"

\* getPrice has rejected for an unsupported inAsset after accepting its asset
GetPriceRejectedInAsset ==
  \E t \in Tasks :
    /\ task[t].op = "getPrice" /\ task[t].pc = "rejected"
    /\ task[t].asset = "rUSDC" /\ task[t].inAsset = "UUUU"
    /\ task[t].msg = <<"Rifi [getPrice] | ", "inAsset", "is not supported">>

\* C14: a resolved getUnderlyingPrice(asset) has made exactly one dispatcher
\* call, the oracle read getUnderlyingPrice(wrapper address of asset), and
\* returns raw / 10^(26 - decimals) when the chain id is 81, 592, 5 or 80001
\* and raw / 10^decimals on every other chain.
UnderlyingPriceFormula ==
  \A t \in Tasks :
    (task[t].op = "getUnderlyingPrice" /\ task[t].pc = "resolved") =>
      LET r == task[t]
          cs == CallsOf(calls, t)
          d == decimals(UnderlyingOf(r.asset))
          w == IF StartsWithR(r.asset) THEN r.asset ELSE RName(r.asset)
      IN  /\ Len(cs) = 1 /\ Len(r.reads) = 1
          /\ ~cs[1].write /\ cs[1].method = "getUnderlyingPrice"
          /\ cs[1].target = address(r.sawNet.name, "PriceFeed")
          /\ cs[1].addrs = <<address(r.sawNet.name, w)>>
          /\ RatEq(r.result,
                   IF r.sawNet.id \in {81, 592, 5, 80001}
                   THEN Rational(r.reads[1], 1, 0 - (26 - d))
                   ELSE Rational(r.reads[1], 1, 0 - d))

\* getUnderlyingPrice has resolved on chain 81 for a plain symbol
UnderlyingPriceOnChain81 ==
  \E t \in Tasks :
    /\ task[t].op = "getUnderlyingPrice" /\ task[t].pc = "resolved"
    /\ task[t].sawNet.id = 81 /\ task[t].asset = "USDC"
    /\ task[t].result = Rational(task[t].reads[1], 1, 0 - 24)

\* C15: a call of the dispatcher that invoked the contract did so exactly
\* once; with isWrite true the invocation is a sent transaction and the promise
\* resolves with the transaction response, with isWrite false it is a static
\* call and the promise resolves with the return value; only sent
\* transactions are executed by the chain.
DispatcherMode ==
  /\ \A i \in 1..Len(calls) :
       calls[i].mode = IF calls[i].write THEN "send" ELSE "callStatic"
  /\ mined # 0 => calls[mined].mode = "send"
  /\ \A t \in Tasks :
       task[t].op \in DispatcherOperations =>
         LET cs == CallsOf(calls, t)
         IN  /\ task[t].pc \in {"invoked", "resolved"} =>
                  Len(cs) = 1 /\ cs[1].write = (task[t].op = "trx")
             /\ task[t].pc = "resolved" =>
                  task[t].got = IF task[t].op = "trx" THEN "TransactionResponse"
                                ELSE "returnValue"

\* Rifi.eth.trx has resolved with the transaction response while the
\* transaction it sent has not been executed by the chain
TrxResolvedUnmined ==
  \E t \in Tasks :
    /\ task[t].op = "trx" /\ task[t].pc = "resolved"
    /\ task[t].got = "TransactionResponse"
    /\ Len(calls) = 1 /\ calls[1].mode = "send" /\ mined = 0

DispatcherSettled(t) ==
  task[t].op \in DispatcherOperations /\ task[t].pc \in {"resolved", "rejected"}

\* C16: a dispatcher promise that is rejected carries the error that the ABI
\* or method resolution, the RPC or the contract raised, unchanged, and has
\* no result; a settled dispatcher promise never changes again; a dispatcher
\* call invokes the contract at most once, and not at all when the ABI or
\* method resolution failed.
DispatcherErrorPropagation ==
  /\ [](\A t \in Tasks :
          task[t].op \in DispatcherOperations =>
            /\ Len(CallsOf(calls, t)) <= 1
            /\ task[t].cause # "none" =>
                 /\ task[t].pc = "rejected"
                 /\ task[t].err = task[t].cause
                 /\ task[t].got = "none"
            /\ task[t].pc = "rejected" => task[t].cause # "none"
            /\ task[t].cause \in {"malformed", "noSuchMethod"} =>
                 CallsOf(calls, t) = <<>>)
  /\ [][\A t \in Tasks :
          DispatcherSettled(t) =>
            task'[t] = task[t] /\ CallsOf(calls', t) = CallsOf(calls, t)]_vars

\* Rifi.eth.trx was rejected with the contract's revert after one invocation
TrxRejectedByRevert ==
  \E t \in Tasks :
    /\ task[t].op = "trx" /\ task[t].pc = "rejected"
    /\ task[t].cause = "revert" /\ task[t].err = "revert"
    /\ Len(CallsOf(calls, t)) = 1

\* C17: util.parseUnits(x, d) returns an integer m with m <= x * 10^d and
\* x * 10^d - m < 1 (both sides taken times 10^(FractionDigits - d)).
ParseUnitsTruncates ==
  \A t \in Tasks :
    (task[t].op = "parseUnits" /\ task[t].pc = "resolved") =>
      \A dec \in app.decimals :
        LET unit == Pow10(FractionDigits - dec)
        IN  /\ task[t].amt * unit <= task[t].amount
            /\ task[t].amount - task[t].amt * unit < unit

\* C18: a vault withdraw on a vault of the network, past the gate: with the
\* amount absent (undefined or null) it is never rejected by validation and
\* has made the one call 'withdrawAll' with no parameter; with any amount of
\* an accepted type, 0 included, it has made the one call 'withdraw' with one
\* parameter, the amount scaled by the deposit token's decimals, or as given
\* when the mantissa option is set.
WithdrawAllWhenAbsent ==
  \A t \in Tasks :
    LET r == task[t]
        cs == CallsOf(calls, t)
        d == decimals(depositToken(r.sawNet.name, r.asset))
    IN  (/\ r.op = "withdraw"
         /\ r.pc \notin {"idle", "gate"}
         /\ r.err # "probe"
         /\ address(r.sawNet.name, r.asset) # "") =>
          /\ r.amount = NONE =>
               /\ r.err # "validation"
               /\ Len(cs) = 1
               /\ cs[1].method = "withdrawAll" /\ cs[1].amount = NONE
               /\ cs[1].addrs = <<>>
          /\ r.amount \in Nat =>
               /\ r.err # "validation"
               /\ Len(cs) = 1
               /\ cs[1].method = "withdraw" /\ cs[1].addrs = <<>>
               /\ cs[1].amount =
                    IF r.mantissa THEN r.amount ELSE r.amount * Pow10(d)

\* withdraw(vault, 0) has called 'withdraw' with the parameter 0
WithdrawZeroCalled ==
  \E t \in Tasks :
    /\ task[t].op = "withdraw" /\ task[t].amount = 0
    /\ task[t].pc = "resolved"
    /\ Len(calls) = 1 /\ calls[1].method = "withdraw" /\ calls[1].amount = 0

\* C19: no operation resolves with an error value, and an operation in which
\* a step failed does not resolve, except getRewardBalances after a failed
\* vestSchedulesInRange read, which carries claimable = 0.
FailuresReject ==
  \A t \in Tasks :
    task[t].pc = "resolved" =>
      /\ task[t].got # "Error"
      /\ task[t].cause # "none" =>
           /\ task[t].op = "getRewardBalances"
           /\ task[t].cause = "vestSchedulesInRange"
           /\ task[t].amt = 0

\* C20: past the gate, supply of a symbol that is no supported underlying
\* (null included) is rejected with 'Rifi [supply] | Argument `asset` cannot
\* be supplied.'; redeem of a symbol that is no non-empty string is rejected
\* with 'Rifi [redeem] | Argument `asset` must be a non-empty string.'; redeem
\* of 'UUUU' or 'rUUUU' is rejected with 'Rifi [redeem] | Argument `asset` is
\* not supported.'; in each case the dispatcher has not been called.
AssetValidationMessages ==
  \A t \in Tasks :
    LET r == task[t]
        owed ==
          IF r.op = "supply" /\ r.asset \notin underlyings
          THEN <<"Rifi [supply] | ", "asset", "cannot be supplied">>
          ELSE IF r.op = "redeem" /\ notNonEmptyString(r.asset)
          THEN <<"Rifi [redeem] | ", "asset", "must be a non-empty string">>
          ELSE IF r.op = "redeem" /\ r.asset \in {"UUUU", "rUUUU"}
          THEN <<"Rifi [redeem] | ", "asset", "is not supported">>
          ELSE <<>>
    IN  (/\ r.op \in {"supply", "redeem"}
         /\ r.pc \notin {"idle", "gate"}
         /\ r.err # "probe"
         /\ owed # <<>>) =>
          /\ r.pc = "rejected" /\ r.err = "validation"
          /\ r.msg = owed
          /\ CallsOf(calls, t) = <<>>

\* C21: a repayBorrow whose asset and amount are accepted: with a non-empty
\* borrower that is no valid address it is rejected with 'Rifi [repayBorrow] |
\* Invalid `borrower` address.' and has made no dispatcher call; otherwise
\* the repay transaction it hands to the dispatcher is an on-behalf method
\* (repayBorrowBehalf / repayBehalf) exactly when borrower is a valid address,
\* and an on-behalf call has that valid address as its first parameter.
RepayBorrowerHandling ==
  \A t \in Tasks :
    LET r == task[t]
        cs == CallsOf(calls, t)
    IN  (/\ r.op = "repayBorrow"
         /\ r.pc \notin {"idle", "gate"}
         /\ r.err # "probe"
         /\ r.asset \in underlyings /\ r.amount \in Nat) =>
          /\ (r.borrower # Null /\ ~isAddress(r.borrower)) =>
               /\ r.pc = "rejected" /\ r.err = "validation"
               /\ r.msg = <<"Rifi [repayBorrow] | ", "Invalid", "borrower", "address">>
               /\ cs = <<>>
          /\ \A i \in 1..Len(cs) :
               (cs[i].write /\ cs[i].method # "approve") =>
                 /\ IsBehalf(cs[i].method) <=> isAddress(r.borrower)
                 /\ IsBehalf(cs[i].method) =>
                      cs[i].addrs # <<>> /\ cs[i].addrs[1] = r.borrower
                      /\ isAddress(cs[i].addrs[1])

\* C22: enterMarkets past the gate with an empty array or with no argument
\* is never rejected by validation and has made exactly one call, the
\* transaction 'enterMarkets' to the controller whose one parameter is the
\* empty address list; with a string s it has made the call made for [s],
\* whose one parameter is the list of the address of the wrapper of s.
EnterMarketsEmpty ==
  \A t \in Tasks :
    LET r == task[t]
        cs == CallsOf(calls, t)
    IN  (r.op = "enterMarkets" /\ r.pc \notin {"idle", "gate"} /\ r.err # "probe") =>
          /\ (r.check \in {"undefined", "array"} /\ r.reads = <<>>) =>
               /\ r.err # "validation"
               /\ Len(cs) = 1 /\ cs[1].write /\ cs[1].method = "enterMarkets"
               /\ cs[1].target = address(r.sawNet.name, "Cointroller")
               /\ cs[1].addrs = << <<>> >>
          /\ (r.check = "string" /\ r.reads = <<"USDC">>) =>
               /\ r.err # "validation"
               /\ Len(cs) = 1 /\ cs[1].write /\ cs[1].method = "enterMarkets"
               /\ cs[1].target = address(r.sawNet.name, "Cointroller")
               /\ cs[1].addrs = << <<address(r.sawNet.name, "rUSDC")>> >>

\* enterMarkets() with no argument has resolved after its one transaction
EnterMarketsNoArgument ==
  \E t \in Tasks :
    /\ task[t].op = "enterMarkets" /\ task[t].check = "undefined"
    /\ task[t].pc = "resolved"
    /\ Len(calls) = 1 /\ calls[1].method = "enterMarkets"
    /\ calls[1].addrs = << <<>> >>

\* C23: with two supply calls in flight nothing orders one call's allowance
\* read, approve and mint against the other's: each call that has read the
\* allowance has submitted an approve exactly when the value it read itself is
\* below its amount, whatever the other call has read or submitted since, and
\* submits its mint only after that.
SupplyUnguarded ==
  \A t \in Tasks :
    LET r == task[t]
        cs == CallsOf(calls, t)
    IN  (r.op = "supply" /\ r.reads # <<>>) =>
          /\ (\E i \in 1..Len(cs) : cs[i].method = "approve" /\ cs[i].amount = r.amt)
               <=> r.reads[1] < r.amt
          /\ \A i \in 1..Len(cs) :
               cs[i].method = "mint" =>
                 /\ cs[i].amount = r.amt
                 /\ r.reads[1] < r.amt =>
                      \E j \in 1..(i - 1) : cs[j].method = "approve"

\* both calls have read the allowance 0, both have submitted an approve, the
\* approve for 100 after the approve for 200; a mint for 200 was submitted
\* after both, and with both approves executed the allowance is 100
SupplyRaceReached ==
  \E i, j, k \in 1..Len(calls) :
    /\ i < j /\ j < k
    /\ calls[i].method = "approve" /\ calls[i].amount = 200
    /\ calls[j].method = "approve" /\ calls[j].amount = 100
    /\ calls[i].t # calls[j].t
    /\ calls[k].method = "mint" /\ calls[k].amount = 200 /\ calls[k].t = calls[i].t
    /\ \A t \in Tasks : task[t].reads = <<0>>
    /\ mined = j /\ allowance["rUSDC"] = 100
    /\ allowance["rUSDC"] < calls[k].amount

\* C24: the primary transaction of supply, redeem, borrow, repayBorrow, vault
\* deposit and vault withdraw carries the caller's amount scaled by
\* 10^decimals once when mantissa is false and unscaled when it is true; for
\* repayBorrow with maxRepay on the native coin it carries that amount
\* increased by 1% (the all-ones sentinel of maxRepay on a token aside).
ScaleOnce ==
  \A i \in 1..Len(calls) :
    LET c == calls[i]
        r == task[c.t]
        once == IF r.mantissa THEN r.amount
                ELSE r.amount * Pow10(decimals(UnitOf(r)))
    IN  (/\ c.write
         /\ r.op \in {"supply", "redeem", "borrow", "repayBorrow", "deposit",
                      "withdraw"}
         /\ c.method = r.method /\ c.method # "withdrawAll") =>
          IF r.op = "repayBorrow" /\ r.maxRepay
          THEN RName(r.asset) = rBNB => 100 * Carried(c) = 101 * once
          ELSE Carried(c) = once

\* C25: at one oracle and exchange-rate state, for resolved calls
\* getPrice(a, b), getPrice(b, c) and getPrice(a, c), the result of the third
\* is the product of the results of the first two.
PriceMultiplicative ==
  \A t, u, v \in Tasks :
    (/\ \A w \in {t, u, v} : task[w].op = "getPrice" /\ task[w].pc = "resolved"
     /\ task[t].inAsset = task[u].asset
     /\ task[v].asset = task[t].asset
     /\ task[v].inAsset = task[u].inAsset) =>
      RatEq(Times(task[t].result, task[u].result), task[v].result)

\* C26: the options object of the application is as it was passed (no value
\* override, no abi), and a call carries a value override only when the
\* operation that makes it is a supply or a repayBorrow of the native coin.
OptionsUnchanged ==
  /\ options = [value |-> NONE, abi |-> NONE]
  /\ \A i \in 1..Len(calls) :
       calls[i].value # NONE =>
         /\ task[calls[i].t].op \in {"supply", "repayBorrow"}
         /\ RName(task[calls[i].t].asset) = rBNB

\* C27: every call made for a wrapper by supply, redeem, borrow, repayBorrow
\* and tokenRead, and every exchange-rate read of getPrice, uses the
\* native-coin ABI exactly when isNativeCoin(wrapper, instance) holds; a supply
\* or repayBorrow transaction carries its amount as the value exactly then,
\* and a supply or repayBorrow without noApprove reads the allowance exactly
\* when it does not hold.
NativeClassification ==
  \A i \in 1..Len(calls) :
    LET c == calls[i]
        r == task[c.t]
        w == IF r.op \in {"supply", "borrow", "repayBorrow"} THEN RName(r.asset)
             ELSE c.target
        native == isNativeCoin(w, r.sawNet.name)
    IN  /\ (\/ r.op \in {"supply", "redeem", "borrow", "repayBorrow", "tokenRead"}
               /\ c.method = r.method
            \/ r.op = "getPrice" /\ c.method = "exchangeRateCurrent") =>
             (c.abi \in {"rBinance", "Maximillion"} <=> native)
        /\ (r.op \in {"supply", "repayBorrow"} /\ c.method = r.method) =>
             (c.amount = NONE <=> native)
        /\ (r.op \in {"supply", "repayBorrow"} /\ c.method = "allowance") => ~native

\* C28: every call that an operation which only queries state (tokenRead,
\* getPrice, getUnderlyingPrice, getRewardBalances, the lens reads) hands to
\* the dispatcher has isWrite false.
QueriesAreReads ==
  \A i \in 1..Len(calls) :
    task[calls[i].t].op \in {"tokenRead", "getPrice", "getUnderlyingPrice",
                             "getRewardBalances"} \cup StaticOperations
      => ~calls[i].write

\* C29: the promise returned by every queryApi call is eventually settled,
\* whatever the outcome of its HTTP request (response, unparsable body,
\* timeout, transport error).
QueryApiSettles ==
  \A t \in 1..MaxTasks :
    (task[t].pc = "request") ~> (task[t].pc \in {"resolved", "rejected"})

\* C30: depositEnabled resolves to true exactly when the allowance it read
\* is at least SAFE_ALLOWANCE; enableDeposit submits approve(vault,
\* MAX_ALLOWANCE), and nothing else, exactly when the allowance it read is
\* below SAFE_ALLOWANCE; and once an approval submitted by enableDeposit has
\* been applied, a call whose allowance read resolves submits nothing and
\* resolves (depositEnabled with true).
EnableDepositIdempotent ==
  [][/\ \A t \in Tasks :
          LET r == task'[t]
              cs == CallsOf(calls', t)
              approves == {i \in 1..Len(cs) : cs[i].method = "approve"}
          IN  /\ (r.op = "depositEnabled" /\ r.pc = "resolved") =>
                   /\ r.got = IF r.reads[1] >= SAFE_ALLOWANCE THEN "true" ELSE "false"
                   /\ Len(cs) = 1 /\ ~cs[1].write
              /\ (r.op = "enableDeposit" /\ r.pc \in {"primary", "resolved"}) =>
                   /\ approves # {} <=> r.reads[1] < SAFE_ALLOWANCE
                   /\ Len(cs) = IF approves = {} THEN 1 ELSE 2
                   /\ \A i \in approves :
                        /\ cs[i].write /\ cs[i].addrs = <<r.target>>
                        /\ cs[i].amount = MAX_ALLOWANCE
     /\ \A t \in Tasks :
          (/\ task[t].op \in {"depositEnabled", "enableDeposit"}
           /\ task[t].pc = "allowance" /\ task'[t].pc # "allowance"
           /\ mined # 0
           /\ task[calls[mined].t].op = "enableDeposit"
           /\ calls[mined].addrs = <<task[t].target>>)
            => /\ calls' = calls
               /\ task'[t].pc = "resolved"
               /\ task'[t].got = IF task[t].op = "depositEnabled" THEN "true"
                                 ELSE Undefined
    ]_vars

\* enableDeposit has submitted an approval from an allowance just below
\* SAFE_ALLOWANCE, the approval has been applied, and after it a second
\* enableDeposit has resolved with nothing submitted and a depositEnabled
\* with true
EnableDepositTwice ==
  \E t, u, v \in Tasks :
    /\ mined # 0 /\ calls[mined].t = u
    /\ task[u].op = "enableDeposit" /\ task[u].reads = <<SAFE_ALLOWANCE - 1>>
    /\ task[t].op = "enableDeposit" /\ task[t].pc = "resolved"
    /\ task[t].reads = <<MAX_ALLOWANCE>> /\ Len(CallsOf(calls, t)) = 1
    /\ task[v].op = "depositEnabled" /\ task[v].pc = "resolved"
    /\ task[v].got = "true"
    /\ allowance["UsdcVault"] = MAX_ALLOWANCE

====
